---- MODULE Spec2Model ----
(***************************************************************************)
(* The pulse assembler of beacon-in-a-box: the prepare -> publish state    *)
(* machine of pulse_generator/src/pulse_assembler.rs over a persistent     *)
(* store and the rng.dat file, with the randomness payload of payload.rs,  *)
(* and the scheduler loop of pulse_generator/src/main.rs that drives it.   *)
(***************************************************************************)
EXTENDS Integers, Sequences, FiniteSets, TLC

(***************************************************************************)
(* Bounds.  A random block is RandLen bytes (64 in the program), a byte is *)
(* 0..ByteMax, a minute is SecsPerMinute seconds; the RNG source yields    *)
(* MaxRand + 1 different blocks.  The scheduler sees NStrands foreign       *)
(* strands with pulses 1..MaxTixel, a stitch configuration of at most      *)
(* MaxCfg entries, a lead time of at most MaxLead seconds, and a clock     *)
(* that the waits of one refresh advance up to MaxNow.  The rounds of the   *)
(* worker loop are counted up to MaxRounds and the signals sent to the     *)
(* process up to MaxSignals.  A key id is a string of at most MaxStr        *)
(* characters.  NCallers tasks share one assembler and make at most        *)
(* MaxCalls calls each.  The loop of the liveness specification runs up to *)
(* the pulse of index MaxLive.  The strand that data_sync copies has       *)
(* pulses up to index MaxSync, and a chunk of try_chunks holds ChunkLen     *)
(* pulses (1000 in the program).  The TCP server accepts MaxConns           *)
(* connections; messages have timestamps up to MaxStamp and MaxIds ids.    *)
(***************************************************************************)
RandLen == 2
ByteMax == 1
MaxRand == 1
SecsPerMinute == 2
NanosPerMilli == 2
MaxIndex == 1
MaxTime == 1
MaxPrepares == 3
MaxXs == 0
NStrands == 2
MaxTixel == 1
MaxCfg == 2
MaxLead == 1
MaxNow == 4
MaxRounds == 2
MaxSignals == 2
MaxStr == 5
NCallers == 2
MaxCalls == 2
MaxLive == 2
MaxSync == 4
ChunkLen == 2
MaxConns == 2
MaxStamp == 2
MaxIds == 2

PULSE_PERIOD_MINUTES == 1
U16_MAX == 65535

VARIABLES
  state,      \* PulseAssembler.state: Option<AssemblyState>
  store,      \* the durable store: the strand and the pulses saved
  rngFile,    \* the file rng.dat
  hashSize,   \* digest size of the strand's hash function, in bytes
  ret,        \* the last call on the assembler and what it returned
  before,     \* the assembler state when the last call was made
  argRand,    \* next_randomness of the last prepare_next that succeeded
  lost,       \* the Prepared state dropped by a stop right after prepare_next
  nPrep,      \* number of prepare_next calls that returned Ok
  nPub,       \* number of publish calls that returned Ok
  sched       \* the scheduler task: its position, its locals and the clock

vars == <<state, store, rngFile, hashSize, ret, before, argRand, lost, nPrep, nPub, sched>>

(***************************************************************************)
(* Values                                                                  *)
(***************************************************************************)
Byte == 0..ByteMax
Blocks == [1..RandLen -> Byte]

RECURSIVE Pow(_, _)
Pow(b, n) == IF n = 0 THEN 1 ELSE b * Pow(b, n - 1)

\* the j-th block: the digits of j, first byte first
Block(j) == [k \in 1..RandLen |-> (j \div Pow(ByteMax + 1, k - 1)) % (ByteMax + 1)]

\* the blocks the RNG source yields
Rands == {Block(j + 1) : j \in 0..MaxRand}

\* the digest sizes of the supported hash functions (32 and 64 bytes)
HashSizes == {RandLen \div 2, RandLen}
XStitchSets == 0..MaxXs

\* the readings of the wall clock (chrono::Utc::now), in whole seconds
Times == 0..MaxTime

\* the clock readings a prepare_next in state st can see: only new_start, for
\* the first pulse, reads the clock
ClockReadings(st) == IF st.tag = "BeginStrand" THEN Times ELSE {0}

\* the strand's period, in seconds
Period == PULSE_PERIOD_MINUTES * SecsPerMinute

Min(a, b) == IF a < b THEN a ELSE b

RECURSIVE BXor(_, _)
BXor(a, b) ==
  IF a = 0 /\ b = 0 THEN 0
  ELSE (((a % 2) + (b % 2)) % 2) + (2 * BXor(a \div 2, b \div 2))

RECURSIVE SumSeq(_)
SumSeq(s) == IF s = <<>> THEN 0 ELSE Head(s) + SumSeq(Tail(s))

\* rand.iter().zip(digest.iter()).map(|(a, b)| a ^ b).collect()
ZipXor(a, b) == [k \in 1..Min(Len(a), Len(b)) |-> BXor(a[k], b[k])]

\* code.digest(&bytes): a multihash of the strand's hash function; the hash is
\* collision free, so the digest is identified by the bytes hashed.
Digest(bytes) == [size |-> hashSize, of |-> bytes]

NoCid == [none |-> TRUE]
NoPulse == [none |-> TRUE]

\* twine.cid(): the content address of a pulse.
Cid(p) == [size |-> hashSize, of |-> p]

\* cid.hash().digest(): the digest bytes of a content address.
DigestBytes(c) ==
  [k \in 1..c.size |->
    ((k * (1 + c.of.index)) + SumSeq(c.of.payload.salt) + SumSeq(c.of.payload.pre.of)
       + c.of.payload.timestamp.secs + c.of.xs) % (ByteMax + 1)]

(***************************************************************************)
(* timing.rs                                                               *)
(***************************************************************************)
next_truncated_time(t, period) == [secs |-> ((t \div period) + 1) * period, nanos |-> 0]

next_pulse_timestamp(prev_ts, period) == [prev_ts EXCEPT !.secs = @ + period]

(***************************************************************************)
(* payload.rs                                                              *)
(***************************************************************************)
PErr(e) == [ok |-> FALSE, err |-> e]

timestamp_subsec_millis(ts) == ts.nanos \div NanosPerMilli

verify(raw) ==
  IF Len(raw.salt) # raw.pre.size THEN PErr("salt_length")
  ELSE IF timestamp_subsec_millis(raw.timestamp) # 0 THEN PErr("subsec")
  ELSE [ok |-> TRUE]

try_new(salt, pre, timestamp) ==
  LET raw == [salt |-> salt, pre |-> pre, timestamp |-> timestamp]
      v == verify(raw)
  IN IF v.ok THEN [ok |-> TRUE, payload |-> raw] ELSE v

\* from_rand that stores the block itself as the salt
from_rand_no_xor(rand, pre, prev, period) ==
  IF prev.payload.pre # Digest(rand) THEN PErr("precommitment")
  ELSE IF Cid(prev).size # pre.size THEN PErr("hash_size")
  ELSE try_new(SubSeq(rand, 1, Min(Len(rand), Cid(prev).size)), pre,
               next_pulse_timestamp(prev.payload.timestamp, period))

\* from_rand that does not compare H(rand) with the predecessor's pre
from_rand_unchecked(rand, pre, prev, period) ==
  IF Cid(prev).size # pre.size THEN PErr("hash_size")
  ELSE try_new(ZipXor(rand, DigestBytes(Cid(prev))), pre,
               next_pulse_timestamp(prev.payload.timestamp, period))

\* from_rand that repeats the predecessor's timestamp
from_rand_same_timestamp(rand, pre, prev, period) ==
  IF prev.payload.pre # Digest(rand) THEN PErr("precommitment")
  ELSE IF Cid(prev).size # pre.size THEN PErr("hash_size")
  ELSE try_new(ZipXor(rand, DigestBytes(Cid(prev))), pre, prev.payload.timestamp)

from_rand(rand, pre, prev, period) ==
  IF prev.payload.pre # Digest(rand) THEN PErr("precommitment")
  ELSE IF Cid(prev).size # pre.size THEN PErr("hash_size")
  ELSE try_new(ZipXor(rand, DigestBytes(Cid(prev))), pre,
               next_pulse_timestamp(prev.payload.timestamp, period))

\* chrono's order of timestamps
TsLess(a, b) == a.secs < b.secs \/ (a.secs = b.secs /\ a.nanos < b.nanos)

\* the block validate_randomness re-derives: salt XOR digest of prev's cid
rederived(self, prev) == ZipXor(self.salt, DigestBytes(Cid(prev)))

\* payload.validate_randomness(prev); the digest is taken with the hash
\* function of prev's pre
validate_randomness(self, prev) ==
  IF Cid(prev).size # self.pre.size THEN PErr("hash_size")
  ELSE IF TsLess(self.timestamp, prev.payload.timestamp) THEN PErr("timestamp")
  ELSE LET pre == [size |-> prev.payload.pre.size, of |-> rederived(self, prev)]
       IN IF pre # self.pre THEN PErr("precommitment") ELSE [ok |-> TRUE]

\* new_start with an all-zero salt
new_start_zero_salt(pre, period, t) ==
  try_new([k \in 1..pre.size |-> 0], pre, next_truncated_time(t, period))

new_start(pre, period, t) ==
  try_new([k \in 1..pre.size |-> k - 1], pre, next_truncated_time(t, period))

(***************************************************************************)
(* twine_spec_rng::PayloadBuilder and the twine builder                    *)
(***************************************************************************)
\* PayloadBuilder::new(rand, next_randomness).builder(): the payload of the
\* pulse that follows prev (NoPulse for the first pulse).
PayloadBuilder(rand, next_randomness, prev, period, t) ==
  IF prev = NoPulse THEN new_start(Digest(next_randomness), period, t)
  ELSE from_rand(rand, Digest(next_randomness), prev, period)

\* build_first(strand) / build_next(&latest) ... build_payload_then_done(pb):
\* index and predecessor link, the payload, then the signature (sign_ok).
build(prev, xs, pb, sign_ok) ==
  IF ~pb.ok THEN pb
  ELSE IF ~sign_ok THEN PErr("build")
  ELSE [ok |-> TRUE,
        pulse |-> [index |-> IF prev = NoPulse THEN 0 ELSE prev.index + 1,
                   prev |-> IF prev = NoPulse THEN NoCid ELSE Cid(prev),
                   xs |-> xs,
                   payload |-> pb.payload]]

(***************************************************************************)
(* The store                                                               *)
(***************************************************************************)
MaxOf(S) == CHOOSE x \in S : \A y \in S : y <= x

MinOf(S) == CHOOSE x \in S : \A y \in S : x <= y

\* store.resolve_latest(&strand)
resolve_latest(sto) ==
  IF sto.pulses = {} THEN NoPulse
  ELSE CHOOSE p \in sto.pulses : p.index = MaxOf({q.index : q \in sto.pulses})

(***************************************************************************)
(* pulse_assembler.rs                                                      *)
(***************************************************************************)
None == [tag |-> "None"]
BeginStrand == [tag |-> "BeginStrand", period |-> Period]
Prepared(rand, prepared) == [tag |-> "Prepared", rand |-> rand, prepared |-> prepared]
Released(rand, twine) == [tag |-> "Released", rand |-> rand, latest |-> twine]

NoFile == [exists |-> FALSE, bytes |-> <<>>]
File(bytes) == [exists |-> TRUE, bytes |-> bytes]

needs_assembly(st) == st.tag \in {"BeginStrand", "Released"}

\* needs_publish that also holds once the pulse is released
needs_publish_released(st) == st.tag \in {"Prepared", "Released"}

needs_publish(st) == st.tag = "Prepared"

\* load_rng that takes a file of any length
load_rng_any_length(f) ==
  IF ~f.exists THEN PErr("io") ELSE [ok |-> TRUE, rng |-> f.bytes]

\* load_rng: Ok only for a file of exactly 64 bytes
load_rng(f) ==
  IF ~f.exists THEN PErr("io")
  ELSE IF Len(f.bytes) # RandLen THEN PErr("rng_length")
  ELSE [ok |-> TRUE, rng |-> f.bytes]

\* save_rng that reports success without writing
save_rng_noop(f, rng, fail, written) ==
  IF fail \in {"rng_open", "rng_write"} THEN [ok |-> FALSE, err |-> "io", file |-> f]
  ELSE [ok |-> TRUE, file |-> f]

\* save_rng: std::fs::write creates or truncates the file, then writes; a
\* failed write leaves the file as it was or cut short after `written` bytes.
save_rng(f, rng, fail, written) ==
  IF fail = "rng_open" THEN [ok |-> FALSE, err |-> "io", file |-> f]
  ELSE IF fail = "rng_write" THEN [ok |-> FALSE, err |-> "io", file |-> File(SubSeq(rng, 1, written))]
  ELSE [ok |-> TRUE, file |-> File(rng)]

\* latest(): NotFound becomes None, any other store error is returned
latest(sto, fail) ==
  IF fail = "store" THEN PErr("store")
  ELSE [ok |-> TRUE, latest |-> resolve_latest(sto)]

\* load_state that never asks the store for the latest pulse
load_state_from_scratch(st, sto, f, fail) ==
  IF st # None THEN [ok |-> TRUE, state |-> st]
  ELSE IF fail = "store" THEN [ok |-> FALSE, err |-> "store", state |-> st]
  ELSE [ok |-> TRUE, state |-> BeginStrand]

\* load_state that does not read rng.dat
load_state_zero_rand(st, sto, f, fail) ==
  IF st # None THEN [ok |-> TRUE, state |-> st]
  ELSE LET l == latest(sto, fail) IN
    IF ~l.ok THEN [ok |-> FALSE, err |-> l.err, state |-> st]
    ELSE IF l.latest = NoPulse THEN [ok |-> TRUE, state |-> BeginStrand]
    ELSE [ok |-> TRUE, state |-> Released([k \in 1..RandLen |-> 0], l.latest)]

\* load_state, called by init
load_state(st, sto, f, fail) ==
  IF st # None THEN [ok |-> TRUE, state |-> st]
  ELSE LET l == latest(sto, fail) IN
    IF ~l.ok THEN [ok |-> FALSE, err |-> l.err, state |-> st]
    ELSE IF l.latest = NoPulse THEN [ok |-> TRUE, state |-> BeginStrand]
    ELSE LET r == load_rng(f) IN
      IF ~r.ok THEN [ok |-> FALSE, err |-> r.err, state |-> st]
      ELSE [ok |-> TRUE, state |-> Released(r.rng, l.latest)]

\* The arms of prepare_next for the three variants below: `ok` tells whether a
\* built pulse is saved at once, `bad` is the state left by a failed build.
prepare_outcome(st, sto, next_randomness, cross_stitches, t, fail, ok, bad) ==
  IF st.tag = "BeginStrand" THEN
    IF fail = "store"
    THEN [ok |-> FALSE, err |-> "store", state |-> st, store |-> sto]
    ELSE LET saved == [sto EXCEPT !.strand = TRUE]
             pb == PayloadBuilder([k \in 1..RandLen |-> 0], next_randomness,
                                  NoPulse, st.period, t)
             b == build(NoPulse, cross_stitches, pb, fail # "build")
         IN IF ~b.ok
            THEN [ok |-> FALSE, err |-> b.err, state |-> bad, store |-> saved]
            ELSE [ok |-> TRUE, err |-> "", state |-> Prepared(next_randomness, b.pulse),
                  store |-> IF ok THEN [saved EXCEPT !.pulses = @ \cup {b.pulse}] ELSE saved]
  ELSE LET prev == IF st.tag = "Prepared" THEN st.prepared ELSE st.latest
           pb == PayloadBuilder(st.rand, next_randomness, prev, Period, t)
           b == build(prev, cross_stitches, pb, fail # "build")
       IN IF ~b.ok
          THEN [ok |-> FALSE, err |-> b.err, state |-> bad, store |-> sto]
          ELSE [ok |-> TRUE, err |-> "", state |-> Prepared(next_randomness, b.pulse),
                store |-> IF ok THEN [sto EXCEPT !.pulses = @ \cup {b.pulse}] ELSE sto]

\* prepare_next that saves the pulse it built
prepare_next_saves(st, sto, next_randomness, cross_stitches, t, fail) ==
  IF ~needs_assembly(st)
  THEN [ok |-> FALSE, err |-> "not_needed", state |-> st, store |-> sto]
  ELSE prepare_outcome(st, sto, next_randomness, cross_stitches, t, fail, TRUE, st)

\* prepare_next that takes over next_randomness before the pulse is built
prepare_next_rand_early(st, sto, next_randomness, cross_stitches, t, fail) ==
  IF ~needs_assembly(st)
  THEN [ok |-> FALSE, err |-> "not_needed", state |-> st, store |-> sto]
  ELSE prepare_outcome(st, sto, next_randomness, cross_stitches, t, fail, FALSE,
                       IF st.tag = "Released" THEN Released(next_randomness, st.latest) ELSE st)

\* prepare_next without the needs_assembly guard: builds on the prepared pulse
prepare_next_no_guard(st, sto, next_randomness, cross_stitches, t, fail) ==
  prepare_outcome(st, sto, next_randomness, cross_stitches, t, fail, FALSE, st)

\* prepare_next(next_randomness, cross_stitches) at wall-clock time t
prepare_next(st, sto, next_randomness, cross_stitches, t, fail) ==
  IF ~needs_assembly(st)
  THEN [ok |-> FALSE, err |-> "not_needed", state |-> st, store |-> sto]
  ELSE IF st.tag = "BeginStrand" THEN
    IF fail = "store"
    THEN [ok |-> FALSE, err |-> "store", state |-> st, store |-> sto]
    ELSE LET saved == [sto EXCEPT !.strand = TRUE]
             pb == PayloadBuilder([k \in 1..RandLen |-> 0], next_randomness,
                                  NoPulse, st.period, t)
             b == build(NoPulse, cross_stitches, pb, fail # "build")
         IN IF ~b.ok
            THEN [ok |-> FALSE, err |-> b.err, state |-> st, store |-> saved]
            ELSE [ok |-> TRUE, err |-> "", state |-> Prepared(next_randomness, b.pulse),
                  store |-> saved]
  ELSE LET pb == PayloadBuilder(st.rand, next_randomness, st.latest, Period, t)
           b == build(st.latest, cross_stitches, pb, fail # "build")
       IN IF ~b.ok
          THEN [ok |-> FALSE, err |-> b.err, state |-> st, store |-> sto]
          ELSE [ok |-> TRUE, err |-> "", state |-> Prepared(next_randomness, b.pulse),
                store |-> sto]

\* publish that saves and returns the latest pulse again when nothing is prepared
publish_when_released(st, sto, f, fail, written) ==
  IF st.tag \in {"Prepared", "Released"} THEN
    LET twine == IF st.tag = "Prepared" THEN st.prepared ELSE st.latest IN
    IF fail = "store"
    THEN [ok |-> FALSE, err |-> "store", state |-> st, store |-> sto, file |-> f,
          pulse |-> NoPulse]
    ELSE LET saved == [sto EXCEPT !.pulses = @ \cup {twine}]
             w == save_rng(f, st.rand, fail, written)
         IN IF ~w.ok
            THEN [ok |-> FALSE, err |-> w.err, state |-> st, store |-> saved,
                  file |-> w.file, pulse |-> NoPulse]
            ELSE [ok |-> TRUE, err |-> "", state |-> Released(st.rand, twine),
                  store |-> saved, file |-> w.file, pulse |-> twine]
  ELSE [ok |-> FALSE, err |-> "not_prepared", state |-> st, store |-> sto, file |-> f,
        pulse |-> NoPulse]

\* publish that sets the state before the store save
publish_state_first(st, sto, f, fail, written) ==
  IF st.tag = "Prepared" THEN
    IF fail = "store"
    THEN [ok |-> FALSE, err |-> "store", state |-> Released(st.rand, st.prepared),
          store |-> sto, file |-> f, pulse |-> NoPulse]
    ELSE LET saved == [sto EXCEPT !.pulses = @ \cup {st.prepared}]
             w == save_rng(f, st.rand, fail, written)
         IN IF ~w.ok
            THEN [ok |-> FALSE, err |-> w.err, state |-> Released(st.rand, st.prepared),
                  store |-> saved, file |-> w.file, pulse |-> NoPulse]
            ELSE [ok |-> TRUE, err |-> "", state |-> Released(st.rand, st.prepared),
                  store |-> saved, file |-> w.file, pulse |-> st.prepared]
  ELSE [ok |-> FALSE, err |-> "not_prepared", state |-> st, store |-> sto, file |-> f,
        pulse |-> NoPulse]

\* publish that writes rng.dat before it saves the pulse
publish_rng_first(st, sto, f, fail, written) ==
  IF st.tag = "Prepared" THEN
    LET w == save_rng(f, st.rand, fail, written) IN
    IF ~w.ok
    THEN [ok |-> FALSE, err |-> w.err, state |-> st, store |-> sto, file |-> w.file,
          pulse |-> NoPulse]
    ELSE IF fail = "store"
    THEN [ok |-> FALSE, err |-> "store", state |-> st, store |-> sto, file |-> w.file,
          pulse |-> NoPulse]
    ELSE [ok |-> TRUE, err |-> "", state |-> Released(st.rand, st.prepared),
          store |-> [sto EXCEPT !.pulses = @ \cup {st.prepared}], file |-> w.file,
          pulse |-> st.prepared]
  ELSE [ok |-> FALSE, err |-> "not_prepared", state |-> st, store |-> sto, file |-> f,
        pulse |-> NoPulse]

\* publish()
publish(st, sto, f, fail, written) ==
  IF st.tag = "Prepared" THEN
    IF fail = "store"
    THEN [ok |-> FALSE, err |-> "store", state |-> st, store |-> sto, file |-> f,
          pulse |-> NoPulse]
    ELSE LET saved == [sto EXCEPT !.pulses = @ \cup {st.prepared}]
             w == save_rng(f, st.rand, fail, written)
         IN IF ~w.ok
            THEN [ok |-> FALSE, err |-> w.err, state |-> st, store |-> saved,
                  file |-> w.file, pulse |-> NoPulse]
            ELSE [ok |-> TRUE, err |-> "", state |-> Released(st.rand, st.prepared),
                  store |-> saved, file |-> w.file, pulse |-> st.prepared]
  ELSE [ok |-> FALSE, err |-> "not_prepared", state |-> st, store |-> sto, file |-> f,
        pulse |-> NoPulse]

(***************************************************************************)
(* The assembler and its caller                                            *)
(***************************************************************************)
\* the assembler used without the scheduler loop
NoScheduler == [pc |-> "none"]

\* What a call returned, and whether it left the stored pulses, the whole
\* store and rng.dat as they were.
Ret(op, ok, err, pulse, sto, f) ==
  [op |-> op, ok |-> ok, err |-> err, pulse |-> pulse,
   pulsesKept |-> sto.pulses = store.pulses,
   storeKept |-> sto = store,
   rngKept |-> f = rngFile]

Init ==
  /\ state = None
  /\ store = [strand |-> FALSE, pulses |-> {}]
  /\ rngFile = NoFile
  /\ hashSize \in HashSizes
  /\ ret = Ret("new", TRUE, "", NoPulse, store, rngFile)
  /\ before = None
  /\ argRand = Block(0)
  /\ lost = None
  /\ nPrep = 0
  /\ nPub = 0
  /\ sched = NoScheduler

\* The ways the store, the signer and the file system can fail in a call made
\* in state st: only the operations the call reaches can fail.
InitFailures(st) == IF st = None THEN {"none", "store"} ELSE {"none"}

PrepareFailures(st) ==
  IF st.tag = "BeginStrand" THEN {"none", "store", "build"}
  ELSE IF st.tag = "Released" THEN {"none", "build"}
  ELSE {"none"}

PublishFailures(st) ==
  IF st.tag = "Prepared" THEN {"none", "store", "rng_open", "rng_write"} ELSE {"none"}

\* assembler.init()
CallInit ==
  \E fail \in InitFailures(state) :
    LET r == load_state(state, store, rngFile, fail) IN
    /\ state' = r.state
    /\ ret' = Ret(IF state = None THEN "init" ELSE "init_again", r.ok,
                  IF r.ok THEN "" ELSE r.err, NoPulse, store, rngFile)
    /\ before' = state
    /\ UNCHANGED <<store, rngFile, hashSize, argRand, lost, nPrep, nPub, sched>>

\* assembler.prepare_next(rn, xs)
CallPrepareNext ==
  /\ state # None
  /\ \E rn \in Rands, xs \in XStitchSets, t \in ClockReadings(state),
        fail \in PrepareFailures(state) :
       LET r == prepare_next(state, store, rn, xs, t, fail) IN
       /\ r.ok => nPrep < MaxPrepares /\ r.state.prepared.index <= MaxIndex
       /\ state' = r.state
       /\ store' = r.store
       /\ ret' = Ret("prepare_next", r.ok, r.err, NoPulse, r.store, rngFile)
       /\ before' = state
       /\ argRand' = IF r.ok THEN rn ELSE argRand
       /\ nPrep' = IF r.ok THEN nPrep + 1 ELSE nPrep
       /\ UNCHANGED <<rngFile, hashSize, lost, nPub, sched>>

\* assembler.publish()
CallPublish ==
  /\ state # None
  /\ \E fail \in PublishFailures(state) :
     \E written \in IF fail = "rng_write" THEN 0..(RandLen - 1) ELSE {0} :
       LET r == publish(state, store, rngFile, fail, written) IN
       /\ state' = r.state
       /\ store' = r.store
       /\ rngFile' = r.file
       /\ ret' = Ret("publish", r.ok, r.err, r.pulse, r.store, r.file)
       /\ before' = state
       /\ nPub' = IF r.ok THEN nPub + 1 ELSE nPub
       /\ lost' = None
       /\ UNCHANGED <<hashSize, argRand, nPrep, sched>>

\* The process stops: the assembler's memory is gone, the store and rng.dat stay.
Crash ==
  /\ state # None
  /\ state' = None
  /\ lost' = IF ret.op = "prepare_next" /\ ret.ok THEN state ELSE None
  /\ ret' = Ret("new", TRUE, "", NoPulse, store, rngFile)
  /\ before' = None
  /\ UNCHANGED <<store, rngFile, hashSize, argRand, nPrep, nPub, sched>>

Next == CallInit \/ CallPrepareNext \/ CallPublish \/ Crash

Spec == Init /\ [][Next]_vars

(***************************************************************************)
(* main.rs: the stitch refresh                                             *)
(***************************************************************************)
Max(a, b) == IF a > b THEN a ELSE b

ForeignStrands == 1..NStrands

\* CrossStitches::default(); a cross-stitch set gives for every foreign strand
\* the pulse stitched to, 0 for none
NoStitches == [s \in ForeignStrands |-> 0]

\* the cross-stitches as a pulse carries them, and back
XsCode(x) == SumSeq([s \in ForeignStrands |-> x[s] * Pow(MaxTixel + 1, s - 1)])

XsOf(c) == [s \in ForeignStrands |-> (c \div Pow(MaxTixel + 1, s - 1)) % (MaxTixel + 1)]

\* assembler.previous_cross_stitches()
previous_cross_stitches(st) ==
  IF st.tag = "BeginStrand" THEN NoStitches
  ELSE IF st.tag = "Prepared" THEN XsOf(st.prepared.xs)
  ELSE XsOf(st.latest.xs)

\* stitch_config.rs: StitchEntry (without the resolver URL) and StitchConfig
StitchEntries == [strand : ForeignStrands, stop : BOOLEAN]

StitchConfigs == UNION {[1..n -> StitchEntries] : n \in 0..MaxCfg}

\* StitchConfig::strands(): the strands of the entries that are not stopped
strands(cfg) == {cfg[i].strand : i \in {j \in 1..Len(cfg) : ~cfg[j].stop}}

\* xstitches.clone().add_or_refresh(cid, &resolver): the resolver answers with
\* the latest pulse of the strand, or fails (answer 0)
add_or_refresh(x, cid, answer) ==
  IF answer = 0 THEN PErr("resolve")
  ELSE [ok |-> TRUE, x |-> [x EXCEPT ![cid] = answer]]

\* one round of the for loop of refresh_stitches
refresh_one(x, cid, answer) ==
  LET r == add_or_refresh(x, cid, answer) IN IF r.ok THEN r.x ELSE x

\* next_cross_stitches that keeps what the refresh had reached
next_cross_stitches_partial(res, prev_cross_stitches, refreshed) == refreshed

\* advance: the match on timeout(time_limit, refresh_stitches(prev)).await;
\* res is "ok", "error" (refresh_stitches returned Err) or "timeout"
next_cross_stitches(res, prev_cross_stitches, refreshed) ==
  IF res = "ok" THEN refreshed ELSE prev_cross_stitches

(***************************************************************************)
(* pulse_assembler.rs: next_state_in                                       *)
(***************************************************************************)
\* time_till_state_change that forgets the lead time
time_till_state_change_no_lead(st, lead_time, now) ==
  IF st.tag = "BeginStrand"
  THEN Max(next_truncated_time(now, st.period).secs - now, 0)
  ELSE IF st.tag = "Prepared"
  THEN Max(st.prepared.payload.timestamp.secs - now, 0)
  ELSE Max(next_pulse_timestamp(st.latest.payload.timestamp, Period).secs - now, 0)

\* time_till_state_change that takes the lead time off the prepared timestamp
time_till_state_change_early(st, lead_time, now) ==
  IF st.tag = "BeginStrand"
  THEN Max(next_truncated_time(now, st.period).secs - lead_time - now, 0)
  ELSE IF st.tag = "Prepared"
  THEN Max(st.prepared.payload.timestamp.secs - lead_time - now, 0)
  ELSE Max(next_pulse_timestamp(st.latest.payload.timestamp, Period).secs
             - lead_time - now, 0)

\* AssemblyState::time_till_state_change(lead_time) when the clock reads now;
\* to_std().unwrap_or(0) turns a negative duration into zero
time_till_state_change(st, lead_time, now) ==
  IF st.tag = "BeginStrand"
  THEN Max(next_truncated_time(now, st.period).secs - lead_time - now, 0)
  ELSE IF st.tag = "Prepared"
  THEN Max(st.prepared.payload.timestamp.secs - now, 0)
  ELSE Max(next_pulse_timestamp(st.latest.payload.timestamp, Period).secs
             - lead_time - now, 0)

next_state_in(st, lead_time, now) == time_till_state_change(st, lead_time, now)

(***************************************************************************)
(* main.rs: main, start_scheduler, advance, assemble_job, publish_job      *)
(***************************************************************************)
\* LEAD_TIME_SECONDS
LeadTimes == 0..MaxLead

\* The scheduler task at position pc when the clock reads now.  cfg, x, todo
\* and failed are the locals of refresh_stitches; xprev, deadline, res, xnext
\* are the locals of advance; now0 and refreshEnd are the clock readings when
\* the iteration began and when its refresh ended; passed is the cross-stitch
\* set given to prepare_next; cause, during and exit tell why, where and with
\* which status the process ended; net and sync tell how the notification of
\* the last publish_job went and how many "sync" messages it sent.
Scheduler(pc, now, lead) ==
  [pc |-> pc, now |-> now, lead |-> lead,
   cfg |-> <<>>, x |-> NoStitches, todo |-> {}, failed |-> {},
   xprev |-> NoStitches, deadline |-> 0, res |-> "none", xnext |-> NoStitches,
   now0 |-> 0, refreshEnd |-> 0, passed |-> NoStitches,
   cause |-> "none", during |-> "none", exit |-> -1, net |-> "none", sync |-> 0]

\* the process ends with the given status
Exited(sc, cause, status) ==
  [sc EXCEPT !.pc = "exited", !.cause = cause, !.during = sc.pc, !.exit = status]

\* the refresh is over with result res: advance picks the cross-stitches and
\* sleeps for next_state_in(lead_time)
RefreshOver(sc, st, res, refreshed) ==
  [sc EXCEPT !.pc = "fetch", !.res = res, !.x = refreshed,
             !.xnext = next_cross_stitches(res, sc.xprev, refreshed),
             !.refreshEnd = sc.now,
             !.now = sc.now + next_state_in(st, sc.lead, sc.now)]

SchedInit ==
  /\ state = None
  /\ store = [strand |-> FALSE, pulses |-> {}]
  /\ rngFile = NoFile
  /\ hashSize \in HashSizes
  /\ ret = Ret("new", TRUE, "", NoPulse, store, rngFile)
  /\ before = None
  /\ argRand = Block(0)
  /\ lost = None
  /\ nPrep = 0
  /\ nPub = 0
  /\ \E now \in Times, lead \in LeadTimes : sched = Scheduler("main", now, lead)

\* main: assembler.init().await?, then start_scheduler
Main ==
  /\ sched.pc = "main"
  /\ \E fail \in InitFailures(state) :
       LET r == load_state(state, store, rngFile, fail) IN
       /\ state' = r.state
       /\ ret' = Ret("init", r.ok, IF r.ok THEN "" ELSE r.err, NoPulse, store, rngFile)
       /\ before' = state
       /\ sched' = IF r.ok THEN [sched EXCEPT !.pc = "select"]
                   ELSE Exited(sched, "error", 1)
       /\ UNCHANGED <<store, rngFile, hashSize, argRand, lost, nPrep, nPub>>

\* advance, needs_assembly: the configuration is read and the refresh begins
\* under the time limit next_state_in(lead_time + 1s).  A configuration that
\* cannot be read or that names no strand to refresh ends the refresh on its
\* first poll; otherwise a time limit of zero ends it with a timeout.
AdvanceAssembly ==
  /\ sched.pc = "select"
  /\ needs_assembly(state)
  /\ \E cfg \in StitchConfigs, readable \in BOOLEAN :
       LET time_limit == next_state_in(state, sched.lead + 1, sched.now)
           sc == [Scheduler("refresh", sched.now, sched.lead) EXCEPT
                     !.cfg = cfg, !.xprev = previous_cross_stitches(state),
                     !.x = previous_cross_stitches(state),
                     !.todo = IF readable THEN strands(cfg) ELSE {},
                     !.now0 = sched.now, !.deadline = sched.now + time_limit]
       IN sched' = IF ~readable THEN RefreshOver(sc, state, "error", sc.x)
                   ELSE IF sc.todo = {} THEN RefreshOver(sc, state, "ok", sc.x)
                   ELSE IF time_limit = 0 THEN RefreshOver(sc, state, "timeout", sc.x)
                   ELSE sc
  /\ UNCHANGED <<state, store, rngFile, hashSize, ret, before, argRand, lost, nPrep, nPub>>

\* refresh_stitches: a resolver answers for one of the strands still to do
RefreshStep ==
  /\ sched.pc = "refresh"
  /\ sched.now < sched.deadline
  /\ \E cid \in sched.todo, answer \in 0..MaxTixel :
       LET sc == [sched EXCEPT !.x = refresh_one(sched.x, cid, answer),
                               !.todo = @ \ {cid},
                               !.failed = IF answer = 0 THEN @ \cup {cid} ELSE @]
       IN sched' = IF sc.todo = {} THEN RefreshOver(sc, state, "ok", sc.x) ELSE sc
  /\ UNCHANGED <<state, store, rngFile, hashSize, ret, before, argRand, lost, nPrep, nPub>>

\* refresh_stitches waits for a resolver while time passes; at the deadline the
\* timeout drops the refresh
RefreshWait ==
  /\ sched.pc = "refresh"
  /\ sched.now < sched.deadline
  /\ sched.now < MaxNow
  /\ LET sc == [sched EXCEPT !.now = @ + 1]
     IN sched' = IF sc.now >= sc.deadline THEN RefreshOver(sc, state, "timeout", sc.x)
                 ELSE sc
  /\ UNCHANGED <<state, store, rngFile, hashSize, ret, before, argRand, lost, nPrep, nPub>>

\* The failures of fetch_randomness: the RNG script fails, or its output is
\* not 64 bytes long
FetchFailures == {"none", "rng_exit", "rng_length"}

\* assemble_job: fetch_randomness, then prepare_next; an error ends advance
\* with Err, and start_scheduler leaves its loop and returns Ok(())
AssembleJob ==
  /\ sched.pc = "fetch"
  /\ \E rfail \in FetchFailures :
       IF rfail # "none"
       THEN /\ ret' = Ret("fetch", FALSE, rfail, NoPulse, store, rngFile)
            /\ before' = state
            /\ sched' = Exited(sched, "error", 0)
            /\ UNCHANGED <<state, store, argRand, nPrep>>
       ELSE \E rn \in Rands, fail \in PrepareFailures(state) :
              LET r == prepare_next(state, store, rn, XsCode(sched.xnext), sched.now, fail)
                  sc == [sched EXCEPT !.passed = sched.xnext]
              IN /\ r.ok => r.state.prepared.index <= MaxIndex
                 /\ state' = r.state
                 /\ store' = r.store
                 /\ ret' = Ret("prepare_next", r.ok, r.err, NoPulse, r.store, rngFile)
                 /\ before' = state
                 /\ argRand' = IF r.ok THEN rn ELSE argRand
                 /\ nPrep' = IF r.ok THEN nPrep + 1 ELSE nPrep
                 /\ sched' = IF r.ok THEN [sc EXCEPT !.pc = "select"]
                             ELSE Exited(sc, "error", 0)
  /\ UNCHANGED <<rngFile, hashSize, lost, nPub>>

\* advance, needs_publish: sleep until the prepared timestamp, then publish()
\* issues the store save
AdvancePublish ==
  /\ sched.pc = "select"
  /\ needs_publish(state)
  /\ sched' = [Scheduler("publishing", sched.now + next_state_in(state, sched.lead, sched.now),
                         sched.lead) EXCEPT !.now0 = sched.now]
  /\ UNCHANGED <<state, store, rngFile, hashSize, ret, before, argRand, lost, nPrep, nPub>>

\* The notification of the data sync task: TcpStream::connect fails, send_text
\* fails, or the message is sent
NetOutcomes == {"sent", "connect", "send_text"}

\* publish_job that returns the error of a failed notification
publish_job_strict(r, net) ==
  IF ~r.ok THEN [ok |-> FALSE, sync |-> 0, net |-> "none"]
  ELSE [ok |-> net = "sent", sync |-> IF net = "sent" THEN 1 ELSE 0, net |-> net]

\* publish_job once publish() has returned r: after Ok it connects to
\* data_sync:5555 and sends one "sync" message, and whatever comes of that it
\* returns Ok; after Err it returns the error
publish_job(r, net) ==
  IF ~r.ok THEN [ok |-> FALSE, sync |-> 0, net |-> "none"]
  ELSE [ok |-> TRUE, sync |-> IF net = "sent" THEN 1 ELSE 0, net |-> net]

\* publish_job: publish() returns, the notification is tried; an error ends
\* advance with Err, and start_scheduler leaves its loop and returns Ok(())
PublishJob ==
  /\ sched.pc = "publishing"
  /\ \E fail \in PublishFailures(state), net \in NetOutcomes :
     \E written \in IF fail = "rng_write" THEN 0..(RandLen - 1) ELSE {0} :
       LET r == publish(state, store, rngFile, fail, written)
           j == publish_job(r, net)
           sc == [sched EXCEPT !.net = j.net, !.sync = j.sync]
       IN
       /\ state' = r.state
       /\ store' = r.store
       /\ rngFile' = r.file
       /\ ret' = Ret("publish", r.ok, r.err, r.pulse, r.store, r.file)
       /\ before' = state
       /\ nPub' = IF r.ok THEN nPub + 1 ELSE nPub
       /\ sched' = IF j.ok THEN [sc EXCEPT !.pc = "select"]
                   ELSE Exited(sc, "error", 0)
       /\ UNCHANGED <<hashSize, argRand, lost, nPrep>>

\* The shutdown signal: select! takes the notified() branch and drops the
\* advance future where it is suspended; a store save in flight (of the
\* strand in prepare_next, of the prepared pulse in publish) has reached the
\* store or has not.
Shutdown ==
  /\ sched.pc \in {"select", "refresh", "fetch", "publishing"}
  /\ \E landed \in IF sched.pc = "publishing"
                     \/ (sched.pc = "fetch" /\ state.tag = "BeginStrand")
                  THEN BOOLEAN ELSE {FALSE} :
       store' = IF ~landed THEN store
                ELSE IF sched.pc = "publishing"
                THEN [store EXCEPT !.pulses = @ \cup {state.prepared}]
                ELSE [store EXCEPT !.strand = TRUE]
  /\ sched' = Exited(sched, "signal", 0)
  /\ UNCHANGED <<state, rngFile, hashSize, ret, before, argRand, lost, nPrep, nPub>>

SchedNext ==
  \/ Main
  \/ AdvanceAssembly
  \/ RefreshStep
  \/ RefreshWait
  \/ AssembleJob
  \/ AdvancePublish
  \/ PublishJob
  \/ Shutdown

SchedSpec == SchedInit /\ [][SchedNext]_vars

(***************************************************************************)
(* main.rs and biab_utils/src/lib.rs: the worker loop and the signal       *)
(* handler task, with advance followed from one await to the next          *)
(***************************************************************************)
\* the awaits of advance, in the order it reaches them, in the arm taken when
\* needs_assembly() holds and in the arm taken when needs_publish() holds
AdvancePoints(arm) ==
  IF arm = "assembly" THEN <<"refresh", "sleep", "fetch", "prepare_next">>
  ELSE <<"sleep", "publish", "connect", "send_text">>

\* the awaits whose error advance returns; a refresh that fails or times out
\* and a notification that fails are logged only
Fallible == {"fetch", "prepare_next", "publish"}

\* The worker at position pc: "main" (before start_scheduler), "top" (at the
\* top of the loop: no Notified future exists), "select" (inside select!, the
\* Notified future registered and advance suspended at its await number at),
\* "exited".  signal tells what became of the call of notify_waiters, sent
\* counts the signals sent to the process, rounds the calls of advance that
\* returned Ok.
Worker(pc, arm, at) ==
  [pc |-> pc, arm |-> arm, at |-> at, signal |-> "none", sent |-> 0, rounds |-> 0,
   cause |-> "none", exit |-> -1]

WorkerInit ==
  /\ state = None
  /\ store = [strand |-> FALSE, pulses |-> {}]
  /\ rngFile = NoFile
  /\ hashSize \in HashSizes
  /\ ret = Ret("new", TRUE, "", NoPulse, store, rngFile)
  /\ before = None
  /\ argRand = Block(0)
  /\ lost = None
  /\ nPrep = 0
  /\ nPub = 0
  /\ sched = Worker("main", "none", 0)

\* main: the handler task is spawned first; init succeeds and start_scheduler
\* spawns the worker, or main returns the error
StartScheduler ==
  /\ sched.pc = "main"
  /\ \E ok \in BOOLEAN :
       sched' = IF ok THEN [sched EXCEPT !.pc = "top", !.arm = "assembly"]
                ELSE [sched EXCEPT !.pc = "exited", !.cause = "error", !.exit = 1]
  /\ UNCHANGED <<state, store, rngFile, hashSize, ret, before, argRand, lost, nPrep, nPub>>

\* loop { select! { shutdown.notified(), advance(&assembler) } }: both futures
\* are created and polled; advance suspends at its first await
LoopSelect ==
  /\ sched.pc = "top"
  /\ sched' = [sched EXCEPT !.pc = "select", !.at = 1]
  /\ UNCHANGED <<state, store, rngFile, hashSize, ret, before, argRand, lost, nPrep, nPub>>

\* advance is woken at its await: it goes on to the next await, returns Ok
\* after the last one (the loop goes round and both futures are dropped), or
\* returns the error of a failed operation (the loop breaks)
AdvanceStep ==
  /\ sched.pc = "select"
  /\ \E ok \in IF AdvancePoints(sched.arm)[sched.at] \in Fallible THEN BOOLEAN ELSE {TRUE} :
       sched' = IF ~ok THEN [sched EXCEPT !.pc = "exited", !.cause = "error", !.exit = 0]
                ELSE IF sched.at < Len(AdvancePoints(sched.arm))
                THEN [sched EXCEPT !.at = @ + 1]
                ELSE [sched EXCEPT !.pc = "top", !.at = 0,
                                   !.arm = IF @ = "assembly" THEN "publish" ELSE "assembly",
                                   !.rounds = Min(@ + 1, MaxRounds)]
  /\ UNCHANGED <<state, store, rngFile, hashSize, ret, before, argRand, lost, nPrep, nPub>>

\* handle_shutdown_signal: the first SIGINT or SIGTERM ends its select! with a
\* call of shutdown.notify_waiters().  A registered Notified future is woken
\* and the loop breaks; with no Notified future the call has no effect, since
\* notify_waiters stores no permit.
HandleShutdownSignal ==
  /\ sched.pc # "exited"
  /\ sched.signal = "none"
  /\ sched' = IF sched.pc = "select"
              THEN [sched EXCEPT !.pc = "exited", !.signal = "woke", !.sent = 1,
                                 !.cause = "signal", !.exit = 0]
              ELSE [sched EXCEPT !.signal = "missed", !.sent = 1]
  /\ UNCHANGED <<state, store, rngFile, hashSize, ret, before, argRand, lost, nPrep, nPub>>

\* a further signal: the handler task has ended, its signal listeners stay
\* installed, nothing happens
LateSignal ==
  /\ sched.pc # "exited"
  /\ sched.signal = "missed"
  /\ sched.sent < MaxSignals
  /\ sched' = [sched EXCEPT !.sent = @ + 1]
  /\ UNCHANGED <<state, store, rngFile, hashSize, ret, before, argRand, lost, nPrep, nPub>>

WorkerNext ==
  \/ StartScheduler
  \/ LoopSelect
  \/ AdvanceStep
  \/ HandleShutdownSignal
  \/ LateSignal

\* the steps of main and of the worker in which no operation fails
WorkerRuns == (StartScheduler \/ LoopSelect \/ AdvanceStep) /\ sched'.pc # "exited"

\* The runtime keeps polling main and the worker; no operation is bound to
\* fail and no signal is bound to come.
WorkerSpec == WorkerInit /\ [][WorkerNext]_vars /\ WF_vars(WorkerRuns)

(***************************************************************************)
(* main.rs: the scheduler loop, one call of advance at a time.  Sleeps and *)
(* the refresh of the cross-stitches end after a bounded time and their    *)
(* outcome does not stop the loop, so a call of advance is one step.       *)
(***************************************************************************)
\* The loop at position pc ("main", "loop", "exited"); fault is what went
\* wrong last ("none", "store", "rng", "rng_file", "build", "signal") and prep
\* the pulse prepared last.
Loop(pc, fault, prep) == [pc |-> pc, fault |-> fault, prep |-> prep]

\* what failed in a call that returned the error err
FaultOf(err) ==
  IF err \in {"rng_exit", "rng_length"} THEN "rng"
  ELSE IF err = "io" THEN "rng_file"
  ELSE IF err = "store" THEN "store"
  ELSE "build"

LoopInit ==
  /\ state = None
  /\ store = [strand |-> FALSE, pulses |-> {}]
  /\ rngFile = NoFile
  /\ hashSize \in HashSizes
  /\ ret = Ret("new", TRUE, "", NoPulse, store, rngFile)
  /\ before = None
  /\ argRand = Block(0)
  /\ lost = None
  /\ nPrep = 0
  /\ nPub = 0
  /\ sched = Loop("main", "none", NoPulse)

\* main: assembler.init().await?, then start_scheduler
LoopMain ==
  /\ sched.pc = "main"
  /\ \E fail \in InitFailures(state) :
       LET r == load_state(state, store, rngFile, fail) IN
       /\ state' = r.state
       /\ ret' = Ret("init", r.ok, IF r.ok THEN "" ELSE r.err, NoPulse, store, rngFile)
       /\ sched' = IF r.ok THEN [sched EXCEPT !.pc = "loop"]
                   ELSE Loop("exited", FaultOf(r.err), sched.prep)
  /\ UNCHANGED <<store, rngFile, hashSize, before, argRand, lost, nPrep, nPub>>

\* advance, needs_assembly: the refresh (whatever its result), the sleep,
\* fetch_randomness, prepare_next; an error breaks the loop
LoopAssemble ==
  /\ sched.pc = "loop"
  /\ needs_assembly(state)
  /\ \E rfail \in FetchFailures :
       IF rfail # "none"
       THEN /\ ret' = Ret("fetch", FALSE, rfail, NoPulse, store, rngFile)
            /\ sched' = Loop("exited", FaultOf(rfail), sched.prep)
            /\ UNCHANGED <<state, store, argRand, nPrep>>
       ELSE \E rn \in Rands, t \in ClockReadings(state), fail \in PrepareFailures(state) :
              LET r == prepare_next(state, store, rn, 0, t, fail) IN
              /\ r.ok => r.state.prepared.index <= MaxLive
              /\ state' = r.state
              /\ store' = r.store
              /\ ret' = Ret("prepare_next", r.ok, r.err, NoPulse, r.store, rngFile)
              /\ argRand' = IF r.ok THEN rn ELSE argRand
              /\ nPrep' = IF r.ok THEN nPrep + 1 ELSE nPrep
              /\ sched' = IF r.ok THEN [sched EXCEPT !.prep = r.state.prepared]
                          ELSE Loop("exited", FaultOf(r.err), sched.prep)
  /\ UNCHANGED <<rngFile, hashSize, before, lost, nPub>>

\* advance, needs_publish: the sleep, publish(), the notification; an error
\* of publish breaks the loop
LoopPublish ==
  /\ sched.pc = "loop"
  /\ needs_publish(state)
  /\ \E fail \in PublishFailures(state), net \in NetOutcomes :
     \E written \in IF fail = "rng_write" THEN 0..(RandLen - 1) ELSE {0} :
       LET r == publish(state, store, rngFile, fail, written)
           j == publish_job(r, net)
       IN
       /\ state' = r.state
       /\ store' = r.store
       /\ rngFile' = r.file
       /\ ret' = Ret("publish", r.ok, r.err, r.pulse, r.store, r.file)
       /\ nPub' = IF r.ok THEN nPub + 1 ELSE nPub
       /\ sched' = IF j.ok THEN sched
                   ELSE Loop("exited", IF r.ok THEN "net" ELSE FaultOf(r.err), sched.prep)
  /\ UNCHANGED <<hashSize, before, argRand, lost, nPrep>>

\* the shutdown notification reaches the select! of the loop
LoopShutdown ==
  /\ sched.pc = "loop"
  /\ sched' = Loop("exited", "signal", sched.prep)
  /\ UNCHANGED <<state, store, rngFile, hashSize, ret, before, argRand, lost, nPrep, nPub>>

LoopNext ==
  \/ LoopMain
  \/ LoopAssemble
  \/ LoopPublish
  \/ LoopShutdown

\* what main and the worker task do
LoopRuns == LoopMain \/ LoopAssemble \/ LoopPublish

\* The runtime keeps polling main and the worker, and every sleep ends.
LoopSpec == LoopInit /\ [][LoopNext]_vars /\ WF_vars(LoopRuns)

(***************************************************************************)
(* pulse_assembler.rs: one assembler shared by concurrent callers.  Every  *)
(* state.lock().await is a step of its own: the lock is held for one read  *)
(* or one write of the state and released before the next await.           *)
(***************************************************************************)
Callers == 1..NCallers

\* A caller: the call it makes (op), the step of the call it is at (0 when
\* the call has returned), the randomness it passes, the state it read (st),
\* the state it is about to set (next), the number of set_state calls made
\* by all callers when it read the state (ver), what the call returned (out),
\* whether its set_state replaced a state set after its read (clobber), and
\* the number of calls it has begun.
Caller(op, at, rn, n) ==
  [op |-> op, at |-> at, rn |-> rn, st |-> None, next |-> None, ver |-> 0,
   out |-> "none", clobber |-> FALSE, n |-> n]

\* the call of caller i has returned out
Returned(c, out) == [c EXCEPT !.at = 0, !.out = out]

ConcInit ==
  /\ state = BeginStrand
  /\ store = [strand |-> FALSE, pulses |-> {}]
  /\ rngFile = NoFile
  /\ hashSize \in HashSizes
  /\ ret = Ret("init", TRUE, "", NoPulse, store, rngFile)
  /\ before = None
  /\ argRand = Block(0)
  /\ lost = None
  /\ nPrep = 0
  /\ nPub = 0
  /\ sched = [pc |-> "callers", sets |-> 0,
              c |-> [i \in Callers |-> Caller("none", 0, Block(0), 0)]]

\* a caller whose last call has returned calls prepare_next or publish
BeginCall ==
  /\ \E i \in Callers, op \in {"prepare_next", "publish"}, rn \in Rands :
       /\ sched.c[i].at = 0
       /\ sched.c[i].n < MaxCalls
       /\ sched' = [sched EXCEPT !.c[i] =
                      Caller(op, 1, IF op = "prepare_next" THEN rn ELSE Block(0), @.n + 1)]
  /\ UNCHANGED <<state, store, rngFile, hashSize, ret, before, argRand, lost, nPrep, nPub>>

\* prepare_next: if !self.needs_assembly().await { return Err }
PrepareCheck ==
  /\ \E i \in Callers :
       /\ sched.c[i].op = "prepare_next" /\ sched.c[i].at = 1
       /\ sched' = [sched EXCEPT !.c[i] =
                      IF needs_assembly(state) THEN [@ EXCEPT !.at = 2]
                      ELSE Returned(@, "err")]
  /\ UNCHANGED <<state, store, rngFile, hashSize, ret, before, argRand, lost, nPrep, nPub>>

\* prepare_next: match self.state().await: the state is read again; the
\* strand is saved and the pulse built from what was read, or the arm
\* `_ => unreachable!()` is taken
PrepareBuild ==
  /\ \E i \in Callers :
       /\ sched.c[i].op = "prepare_next" /\ sched.c[i].at = 2
       /\ IF state.tag = "Prepared"
          THEN /\ sched' = [sched EXCEPT !.c[i] = Returned([@ EXCEPT !.st = state], "panic")]
               /\ UNCHANGED store
          ELSE \E t \in ClockReadings(state), fail \in PrepareFailures(state) :
                 LET r == prepare_next(state, store, sched.c[i].rn, 0, t, fail) IN
                 /\ r.ok => r.state.prepared.index <= MaxIndex
                 /\ store' = r.store
                 /\ sched' = [sched EXCEPT !.c[i] =
                                IF r.ok
                                THEN [@ EXCEPT !.at = 3, !.st = state, !.next = r.state,
                                               !.ver = sched.sets]
                                ELSE Returned([@ EXCEPT !.st = state], "err")]
  /\ UNCHANGED <<state, rngFile, hashSize, ret, before, argRand, lost, nPrep, nPub>>

\* set_state of a caller at step 3: the state is replaced and the call returns Ok
SetState(i) ==
  /\ sched.c[i].at = 3
  /\ state' = sched.c[i].next
  /\ sched' = [sched EXCEPT !.sets = @ + 1,
                            !.c[i] = Returned([@ EXCEPT !.clobber = (sched.c[i].ver # sched.sets)], "ok")]
  /\ UNCHANGED <<store, rngFile, hashSize, ret, before, argRand, lost, nPrep, nPub>>

\* prepare_next: self.set_state(Prepared { rand, prepared }).await; Ok(())
PrepareSet == \E i \in Callers : sched.c[i].op = "prepare_next" /\ SetState(i)

\* publish: if let Prepared { prepared, rand } = self.state().await ... else Err
PublishRead ==
  /\ \E i \in Callers :
       /\ sched.c[i].op = "publish" /\ sched.c[i].at = 1
       /\ sched' = [sched EXCEPT !.c[i] =
                      IF state.tag = "Prepared"
                      THEN [@ EXCEPT !.at = 2, !.st = state, !.ver = sched.sets]
                      ELSE Returned([@ EXCEPT !.st = state], "err")]
  /\ UNCHANGED <<state, store, rngFile, hashSize, ret, before, argRand, lost, nPrep, nPub>>

\* publish: self.store.save(prepared).await?; self.save_rng(&rand)?
PublishSave ==
  /\ \E i \in Callers :
       /\ sched.c[i].op = "publish" /\ sched.c[i].at = 2
       /\ \E fail \in PublishFailures(sched.c[i].st) :
          \E written \in IF fail = "rng_write" THEN 0..(RandLen - 1) ELSE {0} :
            LET r == publish(sched.c[i].st, store, rngFile, fail, written) IN
            /\ store' = r.store
            /\ rngFile' = r.file
            /\ sched' = [sched EXCEPT !.c[i] =
                           IF r.ok THEN [@ EXCEPT !.at = 3, !.next = r.state]
                           ELSE Returned(@, "err")]
  /\ UNCHANGED <<state, hashSize, ret, before, argRand, lost, nPrep, nPub>>

\* publish: self.set_state(Released { latest, rand }).await; Ok(prepared)
PublishSet == \E i \in Callers : sched.c[i].op = "publish" /\ SetState(i)

ConcNext ==
  \/ BeginCall
  \/ PrepareCheck
  \/ PrepareBuild
  \/ PrepareSet
  \/ PublishRead
  \/ PublishSave
  \/ PublishSet

ConcSpec == ConcInit /\ [][ConcNext]_vars

(***************************************************************************)
(* pulse_assembler.rs and main.rs: the persisted pair (store, rng.dat)     *)
(* across crashes.  publish is taken one effect at a time: the store save, *)
(* the rng.dat write, the state update; the process can stop, or the       *)
(* select! of start_scheduler can drop the publish, between any two.       *)
(***************************************************************************)
\* where the worker is: outside a call, or inside publish after the store
\* save ("saved") or after the rng.dat write ("written")
Position(pc) == [pc |-> pc]

DurableInit ==
  /\ state = None
  /\ store = [strand |-> FALSE, pulses |-> {}]
  /\ rngFile = NoFile
  /\ hashSize \in HashSizes
  /\ ret = Ret("new", TRUE, "", NoPulse, store, rngFile)
  /\ before = None
  /\ argRand = Block(0)
  /\ lost = None
  /\ nPrep = 0
  /\ nPub = 0
  /\ sched = Position("idle")

\* assembler.init() after the process started
StartInit ==
  /\ sched.pc = "idle"
  /\ state = None
  /\ \E fail \in InitFailures(state) :
       LET r == load_state(state, store, rngFile, fail) IN
       /\ state' = r.state
       /\ ret' = Ret("init", r.ok, IF r.ok THEN "" ELSE r.err, NoPulse, store, rngFile)
  /\ UNCHANGED <<store, rngFile, hashSize, before, argRand, lost, nPrep, nPub, sched>>

\* assemble_job: assembler.prepare_next(rn, xs)
StepPrepareNext ==
  /\ sched.pc = "idle"
  /\ state # None
  /\ \E rn \in Rands, t \in ClockReadings(state), fail \in PrepareFailures(state) :
       LET r == prepare_next(state, store, rn, 0, t, fail) IN
       /\ r.ok => r.state.prepared.index <= MaxIndex
       /\ state' = r.state
       /\ store' = r.store
       /\ ret' = Ret("prepare_next", r.ok, r.err, NoPulse, r.store, rngFile)
  /\ UNCHANGED <<rngFile, hashSize, before, argRand, lost, nPrep, nPub, sched>>

\* publish: self.store.save(prepared.clone()).await?
PublishStoreSave ==
  /\ sched.pc = "idle"
  /\ state.tag = "Prepared"
  /\ \E fail \in {"none", "store"} :
       LET r == publish(state, store, rngFile, "store", 0)
           saved == [store EXCEPT !.pulses = @ \cup {state.prepared}]
       IN IF fail = "store"
          THEN /\ store' = r.store
               /\ ret' = Ret("publish", FALSE, r.err, NoPulse, r.store, rngFile)
               /\ sched' = sched
          ELSE /\ store' = saved
               /\ ret' = Ret("publish_save", TRUE, "", NoPulse, saved, rngFile)
               /\ sched' = Position("saved")
  /\ UNCHANGED <<state, rngFile, hashSize, before, argRand, lost, nPrep, nPub>>

\* publish: self.save_rng(&rand)?
PublishSaveRng ==
  /\ sched.pc = "saved"
  /\ \E fail \in {"none", "rng_open", "rng_write"} :
     \E written \in IF fail = "rng_write" THEN 0..(RandLen - 1) ELSE {0} :
       LET w == save_rng(rngFile, state.rand, fail, written) IN
       /\ rngFile' = w.file
       /\ ret' = Ret(IF w.ok THEN "publish_write" ELSE "publish", w.ok,
                     IF w.ok THEN "" ELSE w.err, NoPulse, store, w.file)
       /\ sched' = IF w.ok THEN Position("written") ELSE Position("idle")
  /\ UNCHANGED <<state, store, hashSize, before, argRand, lost, nPrep, nPub>>

\* publish: self.set_state(Released { latest: prepared, rand }).await; Ok(prepared)
PublishSetState ==
  /\ sched.pc = "written"
  /\ state' = Released(state.rand, state.prepared)
  /\ ret' = Ret("publish", TRUE, "", state.prepared, store, rngFile)
  /\ sched' = Position("idle")
  /\ UNCHANGED <<store, rngFile, hashSize, before, argRand, lost, nPrep, nPub>>

\* The process stops, or the publish future is dropped and the process
\* ends: the assembler's memory is gone, the store and rng.dat stay.
Stop ==
  /\ state # None
  /\ state' = None
  /\ ret' = Ret("new", TRUE, "", NoPulse, store, rngFile)
  /\ sched' = Position("idle")
  /\ UNCHANGED <<store, rngFile, hashSize, before, argRand, lost, nPrep, nPub>>

DurableNext ==
  \/ StartInit
  \/ StepPrepareNext
  \/ PublishStoreSave
  \/ PublishSaveRng
  \/ PublishSetState
  \/ Stop

DurableSpec == DurableInit /\ [][DurableNext]_vars

(***************************************************************************)
(* payload.rs: payloads that come from elsewhere, built and validated       *)
(* against a first pulse                                                   *)
(***************************************************************************)
ByteSeqs(lens) == UNION {[1..n -> Byte] : n \in lens}

\* the salts, precommitments and timestamps a payload can be made of
Salts == ByteSeqs(0..RandLen)

Pres == {[size |-> sz, of |-> b] : sz \in HashSizes, b \in ByteSeqs(HashSizes)}

Timestamps == [secs : 0..(2 * Period), nanos : 0..((2 * NanosPerMilli) - 1)]

\* the first pulse of a strand, prepared at clock reading t
FirstPulse(rn, t) == build(NoPulse, 0, new_start(Digest(rn), Period, t), TRUE).pulse

PayloadInit ==
  /\ state = None
  /\ hashSize \in HashSizes
  /\ \E rn \in Rands, t \in Times :
       store = [strand |-> TRUE, pulses |-> {FirstPulse(rn, t)}]
  /\ rngFile = NoFile
  /\ ret = Ret("new", TRUE, "", NoPulse, store, rngFile)
  /\ before = None
  /\ argRand = Block(0)
  /\ lost = None
  /\ nPrep = 0
  /\ nPub = 0
  /\ sched = NoScheduler

\* RandomnessPayload::try_new(salt, pre, timestamp); before keeps the payload
TryNew ==
  /\ ret.op = "new"
  /\ \E salt \in Salts, pre \in Pres, timestamp \in Timestamps :
       LET r == try_new(salt, pre, timestamp) IN
       /\ before' = [tag |-> "Payload", salt |-> salt, pre |-> pre, timestamp |-> timestamp]
       /\ ret' = Ret("try_new", r.ok, IF r.ok THEN "" ELSE r.err, NoPulse, store, rngFile)
  /\ UNCHANGED <<state, store, rngFile, hashSize, argRand, lost, nPrep, nPub, sched>>

\* payload.validate_randomness(prev) for an accepted payload and the stored
\* pulse
ValidateRandomness ==
  /\ ret.op = "try_new" /\ ret.ok
  /\ LET r == validate_randomness(before, resolve_latest(store)) IN
       ret' = Ret("validate_randomness", r.ok, IF r.ok THEN "" ELSE r.err, NoPulse,
                  store, rngFile)
  /\ UNCHANGED <<state, store, rngFile, hashSize, before, argRand, lost, nPrep, nPub, sched>>

PayloadNext == TryNew \/ ValidateRandomness

PayloadSpec == PayloadInit /\ [][PayloadNext]_vars

(***************************************************************************)
(* payload.rs: a payload made by from_rand, then validated                 *)
(***************************************************************************)
\* extract_randomness(current, prev)
extract_randomness(current, prev) ==
  LET v == validate_randomness(current.payload, prev) IN
  IF ~v.ok THEN v ELSE [ok |-> TRUE, randomness |-> DigestBytes(Cid(current))]

\* the pulse after prev that carries payload
Carrying(payload, prev) ==
  build(prev, 0, [ok |-> TRUE, payload |-> payload], TRUE).pulse

\* the store holds the first pulse of a strand, made with any block
RoundTripInit ==
  /\ state = None
  /\ hashSize \in HashSizes
  /\ \E rn \in Blocks, t \in Times :
       store = [strand |-> TRUE, pulses |-> {FirstPulse(rn, t)}]
  /\ rngFile = NoFile
  /\ ret = Ret("new", TRUE, "", NoPulse, store, rngFile)
  /\ before = None
  /\ argRand = Block(0)
  /\ lost = None
  /\ nPrep = 0
  /\ nPub = 0
  /\ sched = NoScheduler

\* RandomnessPayload::from_rand(rand, pre, prev, period) with the stored pulse
\* as prev; before keeps the payload, argRand the block
FromRand ==
  /\ \E rand \in Blocks, pre \in Pres :
       LET r == from_rand(rand, pre, resolve_latest(store), Period) IN
       /\ before' = IF r.ok
                    THEN [tag |-> "Payload", salt |-> r.payload.salt, pre |-> r.payload.pre,
                          timestamp |-> r.payload.timestamp]
                    ELSE None
       /\ argRand' = rand
       /\ ret' = Ret("from_rand", r.ok, IF r.ok THEN "" ELSE r.err, NoPulse, store, rngFile)
  /\ UNCHANGED <<state, store, rngFile, hashSize, lost, nPrep, nPub, sched>>

\* payload.validate_randomness(prev) for the payload from_rand returned
ValidateBuilt ==
  /\ ret.op = "from_rand" /\ ret.ok
  /\ LET r == validate_randomness(before, resolve_latest(store)) IN
       ret' = Ret("validate_built", r.ok, IF r.ok THEN "" ELSE r.err, NoPulse,
                  store, rngFile)
  /\ UNCHANGED <<state, store, rngFile, hashSize, before, argRand, lost, nPrep, nPub, sched>>

\* extract_randomness(current, prev) for the pulse carrying that payload
ExtractRandomness ==
  /\ ret.op \in {"from_rand", "validate_built"} /\ before # None
  /\ LET prev == resolve_latest(store)
         r == extract_randomness(Carrying([salt |-> before.salt, pre |-> before.pre,
                                            timestamp |-> before.timestamp], prev), prev)
     IN ret' = Ret("extract_randomness", r.ok, IF r.ok THEN "" ELSE r.err, NoPulse,
                   store, rngFile)
  /\ UNCHANGED <<state, store, rngFile, hashSize, before, argRand, lost, nPrep, nPub, sched>>

RoundTripNext == FromRand \/ ValidateBuilt \/ ExtractRandomness

RoundTripSpec == RoundTripInit /\ [][RoundTripNext]_vars

(***************************************************************************)
(* main.rs: parse_u16, which reads HSM_SIGNING_KEY_ID                      *)
(***************************************************************************)
\* the characters of a key id: two decimal digits, a hex digit, the x of the
\* prefix and a sign
Chars == {"0", "9", "f", "x", "+"}

Strings == UNION {[1..n -> Chars] : n \in 0..MaxStr}

\* char::to_digit(radix): -1 for a character that is no digit of the radix
to_digit(c, radix) ==
  LET v == IF c = "0" THEN 0 ELSE IF c = "9" THEN 9 ELSE IF c = "f" THEN 15 ELSE -1
  IN IF v < radix THEN v ELSE -1

RECURSIVE ValueOf(_, _)
ValueOf(digits, radix) ==
  IF digits = <<>> THEN 0
  ELSE (ValueOf(SubSeq(digits, 1, Len(digits) - 1), radix) * radix)
         + to_digit(digits[Len(digits)], radix)

\* u16::from_str_radix(src, radix), and str::parse::<u16>() for radix 10: an
\* optional + sign, then at least one digit, and a value that fits in a u16
from_str_radix(src, radix) ==
  IF src = <<>> THEN PErr("empty")
  ELSE LET digits == IF Head(src) = "+" THEN Tail(src) ELSE src IN
    IF digits = <<>> \/ \E k \in 1..Len(digits) : to_digit(digits[k], radix) < 0
    THEN PErr("invalid_digit")
    ELSE IF ValueOf(digits, radix) > U16_MAX THEN PErr("overflow")
    ELSE [ok |-> TRUE, value |-> ValueOf(digits, radix)]

\* parse_u16(s): split_at(2) panics on a string shorter than two bytes
parse_u16(s) ==
  IF Len(s) < 2 THEN [ok |-> FALSE, err |-> "panic"]
  ELSE LET prefix == SubSeq(s, 1, 2)
           str == SubSeq(s, 3, Len(s))
       IN IF prefix = <<"0", "x">> THEN from_str_radix(str, 16)
          ELSE from_str_radix(s, 10)

ParseInit ==
  /\ state = None
  /\ store = [strand |-> FALSE, pulses |-> {}]
  /\ rngFile = NoFile
  /\ hashSize = RandLen
  /\ ret = Ret("new", TRUE, "", NoPulse, store, rngFile)
  /\ before \in [tag : {"Str"}, s : Strings]
  /\ argRand = Block(0)
  /\ lost = None
  /\ nPrep = 0
  /\ nPub = 0
  /\ sched = NoScheduler

\* get_hsm_signer: parse_u16(&env::var("HSM_SIGNING_KEY_ID")?)
ParseU16 ==
  /\ ret.op = "new"
  /\ LET r == parse_u16(before.s) IN
       ret' = [op |-> "parse_u16", ok |-> r.ok, err |-> IF r.ok THEN "" ELSE r.err,
               value |-> IF r.ok THEN r.value ELSE -1]
  /\ UNCHANGED <<state, store, rngFile, hashSize, before, argRand, lost, nPrep, nPub, sched>>

ParseNext == ParseU16

ParseSpec == ParseInit /\ [][ParseNext]_vars

(***************************************************************************)
(* data_sync/src/main.rs: start_sync, for one strand of the local store.   *)
(* A pulse is known by its index; the remote store is sched.remote.        *)
(***************************************************************************)
SyncPulse(i) == [index |-> i]

\* AbsoluteRange::new(strand, start, end): the indices from start to end, both
\* included
AbsoluteRange(start, end) == start..end

\* The ways a sync can fail: store.strands() or resolve_range fails
\* ("strands"), a resolve_latest fails ("latest"), remote_store.save of the
\* strand fails (-1), save_many of chunk number c fails (c >= 1)
LocalOutcomes == {"ok", "strands", "latest"}
RemoteOutcomes == {"ok", "latest"}
SaveOutcomes == -1..((MaxSync \div ChunkLen) + 1)

\* the indices of the chunks before chunk c of the range
ChunksBefore(r, c) == {i \in r : (i - MinOf(r)) \div ChunkLen < c - 1}

\* start_sync(store, remote_store) for the strand: the latest pulses of both
\* stores, the skip test, the range, the strand when the range starts at 0,
\* the pulses chunk by chunk
start_sync(local, remote, lres, rres, sfail) ==
  IF lres = "strands" THEN [ok |-> FALSE, remote |-> remote]
  ELSE IF lres = "latest" \/ local.pulses = {} THEN [ok |-> TRUE, remote |-> remote]
  ELSE LET local_latest == resolve_latest(local)
           remote_latest_index ==
             IF rres = "latest" \/ remote.pulses = {} THEN 0
             ELSE resolve_latest(remote).index + 1
       IN IF local_latest.index <= remote_latest_index THEN [ok |-> TRUE, remote |-> remote]
          ELSE LET range == AbsoluteRange(remote_latest_index, local_latest.index)
                   withStrand == IF remote_latest_index = 0
                                 THEN [remote EXCEPT !.strand = TRUE] ELSE remote
               IN IF remote_latest_index = 0 /\ sfail = -1
                  THEN [ok |-> FALSE, remote |-> remote]
                  ELSE IF sfail >= 1 /\ ChunksBefore(range, sfail) # range
                  THEN [ok |-> FALSE,
                        remote |-> [withStrand EXCEPT !.pulses =
                                      @ \cup {SyncPulse(i) : i \in ChunksBefore(range, sfail)}]]
                  ELSE [ok |-> TRUE,
                        remote |-> [withStrand EXCEPT !.pulses =
                                      @ \cup {SyncPulse(i) : i \in range}]]

\* data_sync with the strand in the local store, no pulse yet, and an empty
\* remote store
SyncInit ==
  /\ state = None
  /\ store = [strand |-> TRUE, pulses |-> {}]
  /\ rngFile = NoFile
  /\ hashSize = RandLen
  /\ ret = [op |-> "new", ok |-> TRUE, reachable |-> TRUE]
  /\ before = store
  /\ argRand = Block(0)
  /\ lost = None
  /\ nPrep = 0
  /\ nPub = 0
  /\ sched = [pc |-> "sync", remote |-> [strand |-> FALSE, pulses |-> {}]]

\* the pulse generator saves the next pulse of the strand in the local store
LocalSave ==
  /\ Cardinality(store.pulses) <= MaxSync
  /\ store' = [store EXCEPT !.pulses = @ \cup {SyncPulse(Cardinality(store.pulses))}]
  /\ UNCHANGED <<state, rngFile, hashSize, ret, before, argRand, lost, nPrep, nPub, sched>>

\* worker: start_sync(&store, &remote_store); before keeps the local store as
\* it was when the sync began
StartSync ==
  /\ \E lres \in LocalOutcomes, rres \in RemoteOutcomes, sfail \in SaveOutcomes :
       LET r == start_sync(store, sched.remote, lres, rres, sfail) IN
       /\ sched' = [sched EXCEPT !.remote = r.remote]
       /\ ret' = [op |-> "start_sync", ok |-> r.ok,
                  reachable |-> (lres = "ok" /\ rres = "ok")]
       /\ before' = store
  /\ UNCHANGED <<state, store, rngFile, hashSize, argRand, lost, nPrep, nPub>>

SyncNext == LocalSave \/ StartSync

SyncSpec == SyncInit /\ [][SyncNext]_vars

(***************************************************************************)
(* biab_utils/src/tcp_server.rs: the connections of the TCP server and the *)
(* handle_client task of each.                                             *)
(***************************************************************************)
Conns == 1..MaxConns

\* A connection: the peer's end ("none" before it connects, "open",
\* "closed"), whether the peer has sent its message, the number of messages
\* not yet read, and the handle_client task: "none", "top" (at the top of its
\* loop), "receive" (inside messenger.receive), "send" (inside tx.send),
\* "ended".
Conn(peer, sent, unread, task) ==
  [peer |-> peer, sent |-> sent, unread |-> unread, task |-> task]

ServerInit ==
  /\ state = None
  /\ store = [strand |-> FALSE, pulses |-> {}]
  /\ rngFile = NoFile
  /\ hashSize = RandLen
  /\ ret = Ret("new", TRUE, "", NoPulse, store, rngFile)
  /\ before = None
  /\ argRand = Block(0)
  /\ lost = None
  /\ nPrep = 0
  /\ nPub = 0
  /\ sched = [pc |-> "serving", conn |-> [c \in Conns |-> Conn("none", FALSE, 0, "none")]]

\* publish_job: TcpStream::connect; start_tcp_server: listener.accept()
\* returns the stream and handle_client is spawned for it
Accept ==
  /\ sched.pc = "serving"
  /\ \E c \in Conns :
       /\ sched.conn[c].peer = "none"
       /\ sched' = [sched EXCEPT !.conn[c] = Conn("open", FALSE, 0, "top")]
  /\ UNCHANGED <<state, store, rngFile, hashSize, ret, before, argRand, lost, nPrep, nPub>>

\* publish_job: messenger.send_text(&mut stream, "sync"): the message is
\* written to the stream, or the write fails
PeerSendText ==
  /\ sched.pc = "serving"
  /\ \E c \in Conns, ok \in BOOLEAN :
       /\ sched.conn[c].peer = "open" /\ ~sched.conn[c].sent
       /\ sched' = [sched EXCEPT !.conn[c].sent = TRUE,
                                 !.conn[c].unread = IF ok THEN 1 ELSE 0]
  /\ UNCHANGED <<state, store, rngFile, hashSize, ret, before, argRand, lost, nPrep, nPub>>

\* publish_job: the stream is dropped at the end of the if let block: the
\* peer closes the connection
PeerClose ==
  /\ sched.pc = "serving"
  /\ \E c \in Conns :
       /\ sched.conn[c].peer = "open"
       /\ sched' = [sched EXCEPT !.conn[c].peer = "closed"]
  /\ UNCHANGED <<state, store, rngFile, hashSize, ret, before, argRand, lost, nPrep, nPub>>

\* handle_client: loop { messenger.receive(&mut stream).await ... }
ClientLoop ==
  /\ sched.pc = "serving"
  /\ \E c \in Conns :
       /\ sched.conn[c].task = "top"
       /\ sched' = [sched EXCEPT !.conn[c].task = "receive"]
  /\ UNCHANGED <<state, store, rngFile, hashSize, ret, before, argRand, lost, nPrep, nPub>>

\* Messenger::receive returns: Some(message) or None for a message read
\* (None when it does not parse or is refused), None when read_exact fails
\* at the end of a closed stream; with an open stream and nothing to read
\* read_exact stays suspended
ReceiveReturns ==
  /\ sched.pc = "serving"
  /\ \E c \in Conns, some \in BOOLEAN :
       /\ sched.conn[c].task = "receive"
       /\ sched.conn[c].unread > 0 \/ sched.conn[c].peer = "closed"
       /\ sched' = [sched EXCEPT !.conn[c].unread = 0,
                                 !.conn[c].task =
                                   IF sched.conn[c].unread > 0 /\ some THEN "send" ELSE "top"]
  /\ UNCHANGED <<state, store, rngFile, hashSize, ret, before, argRand, lost, nPrep, nPub>>

\* handle_client: tx.send(message).await, then the loop goes round
ClientSend ==
  /\ sched.pc = "serving"
  /\ \E c \in Conns :
       /\ sched.conn[c].task = "send"
       /\ sched' = [sched EXCEPT !.conn[c].task = "top"]
  /\ UNCHANGED <<state, store, rngFile, hashSize, ret, before, argRand, lost, nPrep, nPub>>

\* the process exits after a shutdown signal: the runtime drops every task
ProcessExit ==
  /\ sched.pc = "serving"
  /\ sched' = [pc |-> "exited",
               conn |-> [c \in Conns |->
                          [sched.conn[c] EXCEPT !.task = IF @ = "none" THEN "none" ELSE "ended"]]]
  /\ UNCHANGED <<state, store, rngFile, hashSize, ret, before, argRand, lost, nPrep, nPub>>

ServerNext ==
  \/ Accept
  \/ PeerSendText
  \/ PeerClose
  \/ ClientLoop
  \/ ReceiveReturns
  \/ ClientSend
  \/ ProcessExit

\* the steps of the handle_client tasks
ClientRuns == ClientLoop \/ ReceiveReturns \/ ClientSend

\* The runtime keeps polling the handle_client tasks; no peer is bound to
\* connect, send or close, and no shutdown is bound to come.
ServerSpec == ServerInit /\ [][ServerNext]_vars /\ WF_vars(ClientRuns)

(***************************************************************************)
(* biab_utils/src/messages.rs: one Messenger shared by the handle_client   *)
(* tasks.  receive takes the read lock for its test and, after releasing   *)
(* it, the write lock for its update; the tasks run on the threads of the  *)
(* runtime, so another receive can come between the two.                   *)
(***************************************************************************)
Messages == [timestamp : 0..MaxStamp, id : 1..MaxIds]

NoMessage == [none |-> TRUE]

\* the test of receive under the read lock: is the message refused?
refused(message, last) ==
  IF last = NoMessage THEN FALSE
  ELSE message.timestamp < last.timestamp \/ message.id = last.id

\* A call of receive by the task of one connection: "idle" (no call, out is
\* what the last call returned), "tested" (the message passed the test, the
\* read lock is released).  lower tells whether the call replaced latest by a
\* message with an earlier timestamp, stale whether the message it returned
\* was one that latest, as it was on return, refuses.
Receiver(at, message, out, lower, stale) ==
  [at |-> at, message |-> message, out |-> out, lower |-> lower, stale |-> stale]

MessengerInit ==
  /\ state = None
  /\ store = [strand |-> FALSE, pulses |-> {}]
  /\ rngFile = NoFile
  /\ hashSize = RandLen
  /\ ret = Ret("new", TRUE, "", NoPulse, store, rngFile)
  /\ before = None
  /\ argRand = Block(0)
  /\ lost = None
  /\ nPrep = 0
  /\ nPub = 0
  /\ sched = [pc |-> "messenger", latest |-> NoMessage,
              r |-> [c \in Conns |-> Receiver("idle", NoMessage, "none", FALSE, FALSE)]]

\* receive: the frame is read and deserialized (or not: None), then the test
\* under self.latest.read()
ReceiveTest ==
  /\ \E c \in Conns, message \in Messages, parsed \in BOOLEAN :
       /\ sched.r[c].at = "idle"
       /\ sched' = [sched EXCEPT !.r[c] =
                      IF ~parsed \/ refused(message, sched.latest)
                      THEN Receiver("idle", NoMessage, "none", FALSE, FALSE)
                      ELSE Receiver("tested", message, "none", FALSE, FALSE)]
  /\ UNCHANGED <<state, store, rngFile, hashSize, ret, before, argRand, lost, nPrep, nPub>>

\* receive: *self.latest.write() = Some(message.clone()); Some(message)
ReceiveStore ==
  /\ \E c \in Conns :
       /\ sched.r[c].at = "tested"
       /\ sched' = [sched EXCEPT
                      !.latest = sched.r[c].message,
                      !.r[c] = Receiver("idle", sched.r[c].message, "some",
                                        /\ sched.latest # NoMessage
                                        /\ sched.r[c].message.timestamp < sched.latest.timestamp,
                                        refused(sched.r[c].message, sched.latest))]
  /\ UNCHANGED <<state, store, rngFile, hashSize, ret, before, argRand, lost, nPrep, nPub>>

MessengerNext == ReceiveTest \/ ReceiveStore

MessengerSpec == MessengerInit /\ [][MessengerNext]_vars

(***************************************************************************)
(* Properties of the assembler                                             *)
(***************************************************************************)
Latest == resolve_latest(store)

\* rng.dat holds a whole block whose hash is the precommitment of the latest
\* stored pulse
RngMatchesLatest ==
  /\ store.pulses # {}
  /\ rngFile.exists
  /\ Len(rngFile.bytes) = RandLen
  /\ Digest(rngFile.bytes) = Latest.payload.pre

\* C1: publish() succeeds only in state Prepared; in any other state it
\* returns an error and writes neither the store nor rng.dat; a pulse is
\* prepared only while fewer publishes than prepare_next calls have succeeded,
\* so the successful publishes never outnumber the successful prepare_next.
C1_PublishOnlyWhenPrepared ==
  /\ nPub <= nPrep
  /\ state.tag = "Prepared" => nPub < nPrep
  /\ ret.op = "publish" =>
       /\ ret.ok => before.tag = "Prepared"
       /\ before.tag # "Prepared" =>
            ~ret.ok /\ ret.storeKept /\ ret.rngKept /\ state = before

C1_Witness ==
  /\ ret.op = "publish" /\ ~ret.ok /\ ret.err = "not_prepared"
  /\ before.tag = "Released" /\ nPub >= 1 /\ nPub = nPrep

\* C2: a pulse of index i >= 1 built from Released{rand, latest} reveals that
\* rand: H(rand) = latest.payload.pre, salt = rand XOR digest(latest id),
\* pre = H(rand_next); and every stored pulse of index >= 1 reveals the block
\* its stored predecessor committed to.
C2_ChainReveals ==
  \A p \in store.pulses : p.index >= 1 =>
    \E q \in store.pulses :
      /\ Cid(q) = p.prev
      /\ p.payload.salt = ZipXor(q.payload.pre.of, DigestBytes(Cid(q)))

C2_CommitReveal ==
  /\ C2_ChainReveals
  /\ (ret.op = "prepare_next" /\ ret.ok /\ before.tag = "Released") =>
       /\ state.tag = "Prepared"
       /\ state.prepared.index = before.latest.index + 1
       /\ Digest(before.rand) = before.latest.payload.pre
       /\ state.prepared.payload.salt = ZipXor(before.rand, DigestBytes(Cid(before.latest)))
       /\ state.prepared.payload.pre = Digest(argRand)
       /\ state.rand = argRand

C2_Witness ==
  /\ ret.op = "prepare_next" /\ ret.ok /\ before.tag = "Released"
  /\ state.tag = "Prepared" /\ state.prepared.index = 1
  /\ \E k \in 1..hashSize : state.prepared.payload.salt[k] # before.rand[k]

\* C3: the stored pulses have the indices 0..n, one pulse per index, and each
\* pulse of index i >= 1 names the stored pulse of index i-1 as predecessor.
C3_ChainContiguous ==
  /\ \A p, q \in store.pulses : p.index = q.index => p = q
  /\ \A p \in store.pulses :
       /\ p.index >= 0
       /\ p.index = 0 => p.prev = NoCid
       /\ p.index >= 1 => \E q \in store.pulses : q.index = p.index - 1 /\ p.prev = Cid(q)
  /\ store.pulses # {} => store.strand

C3_Witness ==
  /\ ret.op = "init" /\ ret.ok
  /\ Cardinality(store.pulses) = 2
  /\ state.tag = "Released" /\ state.latest.index = 1

\* C4: when the process stops right after a successful prepare_next that
\* followed a published pulse, the prepared pulse is not in the store, rng.dat
\* holds the block the latest stored pulse committed to, init() gives
\* Released{rng.dat, latest stored pulse}, prepare_next then succeeds for
\* every rand_next, and with another rand_next it builds another pulse of the
\* same index whose pre is H(rand_next).
C4_AfterStop ==
  (lost # None /\ lost.prepared.index >= 1 /\ state.tag # "Prepared") =>
    /\ lost.prepared \notin store.pulses
    /\ RngMatchesLatest
    /\ Latest.index = lost.prepared.index - 1
    /\ LET r == load_state(None, store, rngFile, "none") IN
         /\ r.ok
         /\ r.state = Released(rngFile.bytes, Latest)
         /\ state # None => state = r.state
         /\ \A rn \in Rands, xs \in XStitchSets, t \in ClockReadings(r.state) :
              prepare_next(r.state, store, rn, xs, t, "none").ok

C4_RestartMidPrepared ==
  /\ C4_AfterStop
  /\ (lost # None /\ lost.prepared.index >= 1 /\ state.tag = "Prepared"
        /\ state.rand # lost.rand) =>
       /\ state.prepared # lost.prepared
       /\ state.prepared \notin store.pulses
       /\ state.prepared.index = lost.prepared.index
       /\ state.prepared.payload.pre = Digest(state.rand)

C4_Witness ==
  /\ lost # None /\ lost.prepared.index >= 1
  /\ ret.op = "prepare_next" /\ ret.ok
  /\ state.tag = "Prepared" /\ state.rand # lost.rand
  /\ state.prepared.index = lost.prepared.index

\* C5: when the store holds pulses and rng.dat holds the block whose hash is
\* the latest pulse's pre, init() on a fresh assembler gives
\* Released{rng.dat, latest}, needs_assembly() is true, and prepare_next
\* succeeds with a pulse of the next index.
C5_FreshInit ==
  RngMatchesLatest =>
    LET r == load_state(None, store, rngFile, "none") IN
    /\ r.ok
    /\ r.state = Released(rngFile.bytes, Latest)
    /\ needs_assembly(r.state)
    /\ \A rn \in Rands, xs \in XStitchSets, t \in ClockReadings(r.state) :
         LET n == prepare_next(r.state, store, rn, xs, t, "none") IN
         n.ok /\ n.state.tag = "Prepared" /\ n.state.prepared.index = Latest.index + 1

C5_RestartFidelity ==
  /\ C5_FreshInit
  /\ (ret.op = "init" /\ ret.ok /\ RngMatchesLatest) =>
       state = Released(rngFile.bytes, Latest) /\ needs_assembly(state)
  /\ (ret.op = "prepare_next" /\ ret.ok /\ before.tag = "Released") =>
       state.prepared.index = before.latest.index + 1

C5_Witness ==
  /\ ret.op = "init" /\ ret.ok
  /\ RngMatchesLatest
  /\ state = Released(rngFile.bytes, Latest)
  /\ Latest.index = 1

\* C6: a successful publish() saves the prepared pulse, then writes to rng.dat
\* the rand_next of the prepare_next that built the pulse, sets the state to
\* Released{rand, latest = pulse} and returns the pulse; rng.dat changes only
\* in a publish whose store save was done.
C6_PublishEffect ==
  /\ (ret.op = "publish" /\ ret.ok) =>
       /\ before.tag = "Prepared"
       /\ before.prepared \in store.pulses
       /\ before.rand = argRand
       /\ rngFile = File(argRand)
       /\ state = Released(before.rand, before.prepared)
       /\ ret.pulse = before.prepared
  /\ ~ret.rngKept =>
       ret.op = "publish" /\ before.tag = "Prepared" /\ before.prepared \in store.pulses

C6_Witness ==
  /\ ret.op = "publish" /\ ret.ok
  /\ state.tag = "Released" /\ state.latest.index = 1
  /\ rngFile = File(argRand) /\ state.latest \in store.pulses

\* C7: whenever publish() returns, either the prepared pulse is stored, rng.dat
\* holds its rand and the state is Released, or the store, rng.dat and the
\* state are all as before the call.
C7_PublishAllOrNothing ==
  ret.op = "publish" =>
    \/ /\ before.tag = "Prepared"
       /\ before.prepared \in store.pulses
       /\ rngFile = File(before.rand)
       /\ state.tag = "Released"
    \/ /\ ret.storeKept
       /\ ret.rngKept
       /\ state = before

\* C8: when the store save of publish() fails, publish() returns the error,
\* the state stays Prepared with the same pulse and rand, the store and
\* rng.dat are not written, and a publish() called after it publishes that
\* prepared pulse.
C8_StoreSaveFailure ==
  (ret.op = "publish" /\ ret.err = "store") =>
    /\ ~ret.ok
    /\ before.tag = "Prepared"
    /\ state = before
    /\ ret.rngKept
    /\ ret.storeKept
    /\ LET r == publish(state, store, rngFile, "none", 0) IN
         /\ r.ok
         /\ r.pulse = before.prepared
         /\ r.pulse \in r.store.pulses
         /\ r.state = Released(before.rand, before.prepared)

C8_Witness ==
  /\ ret.op = "publish" /\ ~ret.ok /\ ret.err = "store"
  /\ state.tag = "Prepared" /\ state.prepared.index = 1
  /\ state.prepared \notin store.pulses
  /\ rngFile # File(state.rand)

\* C9: a prepare_next() that fails, for whatever reason, leaves the assembler
\* state as it was and writes no pulse to the store.
C9_PrepareFailure ==
  (ret.op = "prepare_next" /\ ~ret.ok) =>
    /\ state = before
    /\ ret.pulsesKept
    /\ ret.err \in {"not_needed", "store", "build", "precommitment"}

C9_Witness ==
  /\ ret.op = "prepare_next" /\ ~ret.ok /\ ret.err = "precommitment"
  /\ state.tag = "Released"

\* C10: prepare_next() in state Prepared returns an error and leaves the
\* prepared pulse and its rand as they were; the prepared pulse is always the
\* one built by the last prepare_next that succeeded.
C10_NoPrepareWhilePrepared ==
  /\ (ret.op = "prepare_next" /\ before.tag = "Prepared") =>
       ~ret.ok /\ ret.err = "not_needed" /\ state = before /\ ret.storeKept
  /\ state.tag = "Prepared" =>
       state.rand = argRand /\ state.prepared.payload.pre = Digest(argRand)

C10_Witness ==
  /\ ret.op = "prepare_next" /\ ~ret.ok /\ ret.err = "not_needed"
  /\ state.tag = "Prepared" /\ state.prepared.index = 1

\* C11: in state Released{rand, latest} with H(rand) # latest.payload.pre,
\* prepare_next fails with the precommitment-mismatch error for every
\* rand_next, every cross-stitch set and every clock reading, and leaves the
\* state and the store as they were.
C11_PrecommitmentMismatch ==
  /\ (state.tag = "Released" /\ Digest(state.rand) # state.latest.payload.pre) =>
       \A rn \in Rands, xs \in XStitchSets, t \in Times, fail \in PrepareFailures(state) :
         LET r == prepare_next(state, store, rn, xs, t, fail) IN
         ~r.ok /\ r.err = "precommitment" /\ r.state = state /\ r.store = store
  /\ (ret.op = "prepare_next" /\ before.tag = "Released"
        /\ Digest(before.rand) # before.latest.payload.pre) =>
       ~ret.ok /\ ret.err = "precommitment" /\ state = before /\ ret.storeKept

C11_Witness ==
  /\ ret.op = "prepare_next" /\ ~ret.ok
  /\ before.tag = "Released" /\ Len(before.rand) = RandLen
  /\ Digest(before.rand) # before.latest.payload.pre
  /\ state = before

\* C12: rng.dat changes only in a publish() called in state Prepared whose
\* store save succeeded; new, init, prepare_next (successful or failed), a
\* publish outside Prepared and a publish whose store save failed leave it
\* as it was.
C12_RngWrittenOnlyByPublish ==
  /\ ret.op \in {"new", "init", "init_again", "prepare_next"} => ret.rngKept
  /\ (ret.op = "publish" /\ before.tag # "Prepared") => ret.rngKept
  /\ (ret.op = "publish" /\ ret.err = "store") => ret.rngKept /\ ret.storeKept
  /\ ~ret.rngKept =>
       /\ ret.op = "publish"
       /\ before.tag = "Prepared"
       /\ before.prepared \in store.pulses

C12_Witness ==
  /\ ret.op = "publish" /\ ~ret.ok /\ ret.err = "store"
  /\ before.tag = "Prepared"
  /\ rngFile.exists /\ rngFile.bytes # before.rand
  /\ before.prepared \notin store.pulses

\* C13: a successful prepare_next from BeginStrand has saved the strand and
\* built a pulse of index 0 without predecessor whose pre is H(rand_next) and
\* whose salt is 0,1,...,n-1 with n the hash size; the strand is saved before
\* the build (a failed build leaves it saved); no pulse is stored unless the
\* strand is; the publish of the first pulse leaves rand_next in rng.dat.
C13_Genesis ==
  /\ (ret.op = "prepare_next" /\ ret.ok /\ before.tag = "BeginStrand") =>
       /\ store.strand
       /\ state.tag = "Prepared"
       /\ state.rand = argRand
       /\ state.prepared.index = 0
       /\ state.prepared.prev = NoCid
       /\ state.prepared.payload.pre = Digest(argRand)
       /\ Len(state.prepared.payload.salt) = state.prepared.payload.pre.size
       /\ \A k \in 1..hashSize : state.prepared.payload.salt[k] = k - 1
  /\ (ret.op = "prepare_next" /\ before.tag = "BeginStrand" /\ ret.err = "build") =>
       store.strand
  /\ store.pulses # {} => store.strand
  /\ (ret.op = "publish" /\ ret.ok /\ before.tag = "Prepared"
        /\ before.prepared.index = 0) =>
       /\ rngFile = File(argRand)
       /\ before.prepared.payload.pre = Digest(rngFile.bytes)

C13_Witness ==
  /\ ret.op = "publish" /\ ret.ok /\ before.tag = "Prepared"
  /\ before.prepared.index = 0 /\ before.prepared.prev = NoCid
  /\ hashSize = RandLen
  /\ before.prepared.payload.salt = [k \in 1..RandLen |-> k - 1]
  /\ rngFile = File(argRand) /\ store.strand

\* C14: every pulse of index >= 1 carries its predecessor's timestamp plus the
\* period, with no sub-second part, whatever the clock reads when it is
\* prepared; the timestamps strictly increase along the stored chain.
C14_TimestampStep ==
  /\ \A p \in store.pulses :
       /\ p.payload.timestamp.nanos = 0
       /\ p.index >= 1 =>
            \E q \in store.pulses :
              /\ Cid(q) = p.prev
              /\ p.payload.timestamp.secs = q.payload.timestamp.secs + Period
  /\ \A p, q \in store.pulses :
       p.index < q.index => p.payload.timestamp.secs < q.payload.timestamp.secs
  /\ (ret.op = "prepare_next" /\ ret.ok /\ before.tag = "Released") =>
       state.prepared.payload.timestamp =
         [secs |-> before.latest.payload.timestamp.secs + Period, nanos |-> 0]
  /\ state.tag = "Released" =>
       \A rn \in Rands, xs \in XStitchSets, t \in Times :
         LET r == prepare_next(state, store, rn, xs, t, "none") IN
         r.ok => r.state.prepared.payload.timestamp =
                   [secs |-> state.latest.payload.timestamp.secs + Period, nanos |-> 0]

C14_Witness ==
  /\ ret.op = "publish" /\ ret.ok
  /\ state.tag = "Released" /\ state.latest.index = 1
  /\ \E q \in store.pulses :
       /\ q.index = 0
       /\ state.latest.payload.timestamp.secs = q.payload.timestamp.secs + Period
       /\ q.payload.timestamp.secs >= Period

\* C23: init() on an unloaded assembler gives BeginStrand(period) when the
\* store has no latest pulse, Released{rand = rng.dat, latest} when it has one
\* and rng.dat holds exactly RandLen bytes, and otherwise (rng.dat missing or
\* of another length, or the store failing) returns an error and leaves the
\* state unloaded; it writes nothing.
C23_InitOutcomes ==
  /\ \A fail \in {"none", "store"} :
       LET r == load_state(None, store, rngFile, fail) IN
       IF fail = "store" THEN ~r.ok /\ r.state = None
       ELSE IF store.pulses = {} THEN r.ok /\ r.state = BeginStrand
       ELSE IF rngFile.exists /\ Len(rngFile.bytes) = RandLen
       THEN r.ok /\ r.state = Released(rngFile.bytes, Latest)
       ELSE ~r.ok /\ r.state = None
  /\ ret.op = "init" =>
       /\ before = None
       /\ ret.storeKept /\ ret.rngKept
       /\ ret.ok <=> state # None
       /\ IF ret.err = "store" THEN state = None
          ELSE IF store.pulses = {} THEN state = BeginStrand
          ELSE IF rngFile.exists /\ Len(rngFile.bytes) = RandLen
          THEN state = Released(rngFile.bytes, Latest)
          ELSE state = None /\ ret.err \in {"io", "rng_length"}

C23_Witness ==
  /\ ret.op = "init" /\ ~ret.ok /\ ret.err = "rng_length"
  /\ state = None /\ store.pulses # {}
  /\ rngFile.exists /\ Len(rngFile.bytes) < RandLen

(***************************************************************************)
(* Properties of the scheduler                                             *)
(***************************************************************************)
\* C15: when the stitch refresh ran into its time limit or returned an error,
\* the cross-stitch set that advance hands to prepare_next is the previous
\* set, whatever the refresh had reached, and the prepared pulse carries it.
C15_TimeoutUsesPrevious ==
  /\ (sched.pc = "fetch" /\ sched.res \in {"timeout", "error"}) =>
       /\ sched.xprev = previous_cross_stitches(state)
       /\ sched.xnext = sched.xprev
  /\ (ret.op = "prepare_next" /\ sched.res \in {"timeout", "error"}) =>
       /\ sched.passed = sched.xprev
       /\ ret.ok => state.tag = "Prepared" /\ XsOf(state.prepared.xs) = sched.xprev

C15_Witness ==
  /\ ret.op = "prepare_next" /\ ret.ok
  /\ sched.res = "timeout"
  /\ sched.x # sched.xprev /\ sched.todo # {}
  /\ sched.passed = sched.xprev
  /\ XsOf(state.prepared.xs) = sched.xprev

\* the timestamp of the pulse to assemble in state st, seen at clock reading now
NextTimestamp(st, now) ==
  IF st.tag = "BeginStrand" THEN next_truncated_time(now, st.period).secs
  ELSE st.latest.payload.timestamp.secs + Period

\* C16: when assemble_job is about to start, the refresh has ended at least
\* one second before the assembly instant (the next pulse timestamp less the
\* lead time) and assemble_job starts at that instant; when the iteration
\* began at or after the instant, the refresh ended at once and assemble_job
\* starts at once.
C16_RefreshNeverDelays ==
  sched.pc = "fetch" =>
    LET instant == NextTimestamp(state, sched.now0) - sched.lead IN
    /\ sched.now0 <= instant - 1 =>
         sched.refreshEnd <= instant - 1 /\ sched.now = instant
    /\ sched.now0 >= instant =>
         sched.refreshEnd = sched.now0 /\ sched.now = sched.now0

C16_Witness ==
  /\ sched.pc = "fetch" /\ sched.res = "timeout" /\ sched.todo # {}
  /\ sched.now0 < sched.refreshEnd
  /\ sched.refreshEnd < sched.now
  /\ sched.now = NextTimestamp(state, sched.now0) - sched.lead

\* the strands a configuration names, and those it names with stop: true
Configured(cfg) == {cfg[i].strand : i \in 1..Len(cfg)}

Stopped(cfg) == {cfg[i].strand : i \in {j \in 1..Len(cfg) : cfg[j].stop}}

\* C17: the set refresh_stitches returns has an entry for every strand the
\* previous set has; the entries of strands that are not configured or are
\* configured with stop: true are as before (none is added); a strand whose
\* refresh failed keeps its entry.
C17_RefreshKeepsEntries ==
  (sched.pc = "fetch" /\ sched.res = "ok") =>
    \A s \in ForeignStrands :
      /\ sched.xprev[s] # 0 => sched.x[s] # 0
      /\ (s \notin Configured(sched.cfg) \/ s \in Stopped(sched.cfg)) =>
           sched.x[s] = sched.xprev[s]
      /\ s \in sched.failed => sched.x[s] = sched.xprev[s]

\* C18: a failed iteration (RNG failure, prepare_next error, publish error)
\* leaves the assembler state as before and does not end the scheduler loop:
\* the process ends only on a failed init or on the shutdown signal.
C18_LoopIsRetryBoundary ==
  /\ (ret.op \in {"fetch", "prepare_next", "publish"} /\ ~ret.ok) =>
       state = before /\ sched.pc # "exited"
  /\ sched.pc = "exited" => sched.cause = "signal" \/ sched.during = "main"

\* C19: the process ends with status 0 exactly when it ends because of the
\* shutdown signal.
C19_ExitStatus ==
  sched.pc = "exited" => (sched.exit = 0 <=> sched.cause = "signal")

\* C20: when the shutdown signal arrives while publish() is in progress, the
\* process ends with the pulse saved, its rand in rng.dat and the state
\* Released; it never ends on the signal with a latest stored pulse whose
\* rand is not in rng.dat.
C20_PublishCompletesOnShutdown ==
  (sched.pc = "exited" /\ sched.cause = "signal") =>
    /\ sched.during = "publishing" =>
         /\ state.tag = "Released"
         /\ state.latest \in store.pulses
         /\ rngFile = File(state.rand)
    /\ store.pulses # {} => RngMatchesLatest

\* C22: a "sync" message is sent only by a publish_job whose publish()
\* succeeded, and one at most; when the connection or the send fails,
\* publish_job returns Ok all the same: the loop goes on and the state is the
\* Released state publish() left.
C22_NotificationBestEffort ==
  /\ sched.sync \in {0, 1}
  /\ sched.sync = 1 => ret.op = "publish" /\ ret.ok /\ sched.net = "sent"
  /\ (ret.op = "publish" /\ ~ret.ok) => sched.sync = 0 /\ sched.net = "none"
  /\ sched.net \in {"connect", "send_text"} =>
       /\ ret.op = "publish" /\ ret.ok
       /\ sched.sync = 0
       /\ state = Released(before.rand, before.prepared)
       /\ sched.pc = "exited" => sched.cause = "signal"

C22_Witness ==
  /\ sched.net = "send_text" /\ sched.pc = "select"
  /\ ret.op = "publish" /\ ret.ok
  /\ state.tag = "Released" /\ state.latest.index = 1

\* C24: wherever the scheduler loop stands, the assembler state is loaded and
\* exactly one of needs_assembly() and needs_publish() holds: needs_assembly
\* in BeginStrand and Released, needs_publish in Prepared; so advance never
\* takes its last else branch and no query finds the state unloaded.
C24_ExactlyOneNeed ==
  /\ sched.pc \in {"select", "refresh", "fetch", "publishing"} =>
       /\ state # None
       /\ needs_assembly(state) <=> ~needs_publish(state)
  /\ state # None =>
       /\ needs_assembly(state) <=> state.tag \in {"BeginStrand", "Released"}
       /\ needs_publish(state) <=> state.tag = "Prepared"
  /\ sched.pc \in {"refresh", "fetch"} => needs_assembly(state)
  /\ sched.pc = "publishing" => needs_publish(state)
  /\ (sched.pc = "exited" /\ sched.during # "main") => state # None

C24_Witness ==
  /\ sched.pc = "select"
  /\ state.tag = "Released" /\ state.latest.index = 1
  /\ needs_assembly(state) /\ ~needs_publish(state)

\* C29: publish() is called for a prepared pulse only when the clock has
\* reached the timestamp of the pulse's payload: in state Prepared the
\* scheduler sleeps for timestamp - now, or not at all when that is past,
\* and then publishes.
C29_PublishNotEarly ==
  /\ sched.pc = "publishing" =>
       /\ state.tag = "Prepared"
       /\ sched.now >= state.prepared.payload.timestamp.secs
       /\ sched.now = Max(sched.now0, state.prepared.payload.timestamp.secs)
  /\ (ret.op = "publish" /\ sched.pc # "exited") =>
       sched.now >= before.prepared.payload.timestamp.secs
  /\ (ret.op = "publish" /\ sched.pc = "exited" /\ sched.during = "publishing") =>
       sched.now >= before.prepared.payload.timestamp.secs

C29_Witness ==
  /\ sched.pc = "publishing" /\ sched.lead >= 1
  /\ state.tag = "Prepared" /\ state.prepared.index = 1
  /\ sched.now0 < sched.now
  /\ sched.now = state.prepared.payload.timestamp.secs

(***************************************************************************)
(* Properties of the worker loop and the signal handler                    *)
(***************************************************************************)
\* C21: once SIGINT or SIGTERM has been delivered, at whatever moment
\* relative to the rounds of the scheduler loop the handler task calls
\* notify_waiters, the loop eventually exits.
C21_SignalStopsLoop == (sched.sent >= 1) ~> (sched.pc = "exited")

(***************************************************************************)
(* Properties of the payload                                               *)
(***************************************************************************)
\* C25: try_new fails for every payload whose salt length differs from the
\* hash size of pre or whose timestamp has a non-zero sub-second part, down
\* to the finest resolution, and succeeds otherwise.
C25_PayloadWellFormed ==
  ret.op = "try_new" =>
    (ret.ok <=> (Len(before.salt) = before.pre.size /\ before.timestamp.nanos = 0))

\* C26: validate_randomness succeeds only if the block re-derived as salt XOR
\* digest(prev identifier) hashes to the pre of the predecessor's payload,
\* whatever the payload's own pre is.
C26_ValidateChecksPrevPre ==
  (ret.op = "validate_randomness" /\ ret.ok) =>
    Digest(rederived(before, Latest)) = Latest.payload.pre

\* C27: validate_randomness rejects every payload whose timestamp is not
\* strictly later than the timestamp of the predecessor's payload, an equal
\* timestamp included.
C27_ValidateTimestampLater ==
  (ret.op = "validate_randomness"
     /\ ~TsLess(Latest.payload.timestamp, before.timestamp)) => ~ret.ok

(***************************************************************************)
(* Properties of parse_u16                                                 *)
(***************************************************************************)
\* the strings of decimal digits and the strings of hex digits
IsDigits(s, radix) == s # <<>> /\ \A k \in 1..Len(s) : to_digit(s[k], radix) >= 0

\* C28: parse_u16 returns n for every decimal string of an n in 0..65535,
\* one-digit strings included, and for every string made of 0x and the hex
\* digits of n; for every other string it returns an error, and it never
\* panics.
C28_ParseU16 ==
  ret.op = "parse_u16" =>
    LET s == before.s
        hex == SubSeq(s, 3, Len(s))
    IN /\ ret.err # "panic"
       /\ IF IsDigits(s, 10) /\ ValueOf(s, 10) <= U16_MAX
          THEN ret.ok /\ ret.value = ValueOf(s, 10)
          ELSE IF Len(s) >= 3 /\ SubSeq(s, 1, 2) = <<"0", "x">> /\ IsDigits(hex, 16)
                  /\ ValueOf(hex, 16) <= U16_MAX
          THEN ret.ok /\ ret.value = ValueOf(hex, 16)
          ELSE ~ret.ok

(***************************************************************************)
(* Properties of the assembler under concurrent callers                    *)
(***************************************************************************)
\* C30: with concurrent callers each call checks and updates the state as one
\* step: two prepare_next calls never both succeed from the same state, the
\* unreachable!() arm of prepare_next is never reached, and a publish never
\* replaces a state that another call set after the publish read its own.
C30_TransitionsAtomic ==
  /\ \A i, j \in Callers :
       (/\ i # j
        /\ sched.c[i].op = "prepare_next" /\ sched.c[i].out = "ok"
        /\ sched.c[j].op = "prepare_next" /\ sched.c[j].out = "ok")
         => sched.c[i].ver # sched.c[j].ver
  /\ \A i \in Callers : sched.c[i].out # "panic"
  /\ \A i \in Callers : sched.c[i].op = "publish" => ~sched.c[i].clobber

(***************************************************************************)
(* Properties of the persisted pair                                        *)
(***************************************************************************)
\* init() on the persisted store and rng.dat, the store answering
RestartState == load_state(None, store, rngFile, "none")

\* C31: wherever the process can stop, when the store has a latest pulse
\* rng.dat holds a block that hashes to that pulse's pre, and after a restart
\* init() followed by prepare_next() succeeds (store and signer working).
C31_PersistedPairConsistent ==
  /\ resolve_latest(store) # NoPulse =>
       /\ load_rng(rngFile).ok
       /\ Digest(load_rng(rngFile).rng) = resolve_latest(store).payload.pre
  /\ RestartState.ok
  /\ \A rn \in Rands, t \in ClockReadings(RestartState.state) :
       prepare_next(RestartState.state, store, rn, 0, t, "none").ok

(***************************************************************************)
(* Properties of the payload round trip                                    *)
(***************************************************************************)
\* C32: a payload that from_rand returned for a predecessor passes
\* validate_randomness against that predecessor, and extract_randomness
\* succeeds for the pulse carrying it, for every hash size.
C32_RoundTrip ==
  /\ ret.op = "validate_built" => ret.ok
  /\ ret.op = "extract_randomness" => ret.ok

(***************************************************************************)
(* Properties of the scheduler loop: progress                              *)
(***************************************************************************)
\* the index of the latest stored pulse, -1 for an empty store
LatestIndex == IF store.pulses = {} THEN -1 ELSE resolve_latest(store).index

\* every Prepared state is followed by Released with the prepared pulse as
\* latest, the latest index goes up to MaxLive, by one per publish
LoopProgress ==
  /\ \A i \in 0..MaxLive :
       (state.tag = "Prepared" /\ state.prepared.index = i)
         ~> (state.tag = "Released" /\ state.latest.index = i /\ state.latest = sched.prep)
  /\ \A i \in -1..(MaxLive - 1) : (LatestIndex = i) ~> (LatestIndex = i + 1)
  /\ [](LatestIndex = nPub - 1)

C34_SyncComplete ==
  (ret.op = "start_sync" /\ ret.ok /\ ret.reachable) =>
    before.pulses \subseteq sched.remote.pulses

(***************************************************************************)
(* Properties of the TCP server                                            *)
(***************************************************************************)
\* C35: after the peer has closed a connection the handle_client task that
\* serves it ends, so that the live tasks do not pile up with the closed
\* connections.
C35_HandlerEnds ==
  \A c \in Conns : (sched.conn[c].peer = "closed") ~> (sched.conn[c].task = "ended")

(***************************************************************************)
(* Properties of the Messenger                                             *)
(***************************************************************************)
\* C36: whatever the interleaving of the receive calls on one Messenger, the
\* timestamp of latest never goes down, and receive returns a message only
\* if it is not older than the latest accepted message and has another id.
C36_LatestMonotonic ==
  \A c \in Conns :
    sched.r[c].out = "some" => ~sched.r[c].lower /\ ~sched.r[c].stale

====
